---- MODULE Spec2Model ----
(***************************************************************************)
(* Reactivity engine of huangkairan/vue: Dep (core/observer/dep.js), the   *)
(* Watcher class (in core/observer/traverse.js), Observer / observe /      *)
(* defineReactive and the scheduler (both in unnamed/part_004) and         *)
(* nextTick (core/util/next-tick.js).                                      *)
(*                                                                         *)
(* The development build with config.async = true is modelled: the         *)
(* circular-update guard is on, and a flush is always deferred through     *)
(* nextTick.  Watchers are not deep and have no `before` hook.             *)
(*                                                                         *)
(* JavaScript is single threaded: the model keeps one explicit call stack  *)
(* of the framework loops and user functions (getters, callbacks) that are *)
(* in progress.  User functions are arbitrary code, so what a getter or a  *)
(* callback does next (read, write, tear a watcher down, throw, return)    *)
(* is a nondeterministic choice.                                           *)
(***************************************************************************)
EXTENDS Integers, Sequences, FiniteSets, TLC

\* ------------------------------------------------------------------ bounds
MaxWatchers == 2
MaxDepth == 5
MaxFuel == 1
MaxVmCount == 2
MaxDepUid == 8
MaxLen == 2
MaxTokens == 4
MaxExp == 6
MaxPieces == 6
MaxNodes == 3
MaxEvents == 4
MaxHandlers == 3
MaxProps == 2

\* ------------------------------------------------------- program constants
MAX_UPDATE_COUNT == 100

\* --------------------------------------------------------------- universes
WatcherIds == 1..MaxWatchers
\* The objects: two plain objects, an array, a Vue instance, a VNode, an object
\* that is neither plain nor an array (a Date), a frozen plain object.
Plain == {"data", "o1"}
Arrays == {"arr"}
Objs == Plain \cup Arrays \cup {"vm", "vnode", "date", "frozen"}
Keys == {"a", "b"}
\* A key that Object.prototype has, and all the keys.
ProtoKeys == {"toString"}
Names == Keys \cup ProtoKeys
\* val[o][k] of a key o does not have as an own property.
Absent == "absent"
\* JavaScript values a property or a getter result takes here: undefined,
\* a string, NaN, or a reference to one of the objects.
Prims == {"undef", "x", "NaN"}
Vals == Prims \cup Objs
MaxDeps == Cardinality(Objs) * (Cardinality(Names) + 1)
DepIds == 0..(MaxDeps - 1)

VARIABLES
  \* Observer, defineReactive
  val,          \* val[o][k]: the closure variable `val` of property k of o
  propDep,      \* propDep[o][k]: {} or {id of the Dep closed over by the accessors}
  childOb,      \* childOb[o][k]: {} or {dep id of the Observer of the held value}
  obOf,         \* obOf[o]: {} or {dep id of o.__ob__} (an Observer owns exactly one Dep)
  vmCount,      \* vmCount[o]: o.__ob__.vmCount
  shouldObserve,
  items,        \* items[o]: the elements of array o
  \* compiler
  compiler,     \* the function of the template compiler at work, and its variables
  \* components
  lifecycle,    \* activatedChildren, the components' flags, and the hooks called
  \* traverse
  seenObjects,  \* the Dep ids of the Observers the traversal in progress has met
  \* Dep
  depUid,       \* the Dep uid counter
  subs,         \* subs[d]: Dep d's subscriber array
  targetStack,  \* Dep.target is its last element
  \* Watcher
  uid,          \* the Watcher uid counter: watchers 1..uid exist
  watchers,     \* watchers[w]: the fields of watcher w
  \* scheduler
  queue, has, circular, waiting, flushing, index,
  \* nextTick
  callbacks, pending,
  \* control
  stack,        \* the call stack: frames of the loops and user functions in progress
  exc,          \* an exception is propagating up the stack
  fuel,         \* side effects user functions may still perform in this tick
  \* observation (history) variables
  ev,           \* the last step taken
  flushLog      \* what the current (or last) flush did

vars == << val, propDep, childOb, obOf, vmCount, shouldObserve, items, compiler, lifecycle, seenObjects,
           depUid, subs,
           targetStack, uid, watchers, queue, has, circular, waiting, flushing,
           index, callbacks, pending, stack, exc, fuel, ev, flushLog >>

heapVars == << val, propDep, childOb, obOf, vmCount, shouldObserve, items, depUid >>
schedVars == << queue, has, circular, waiting, flushing, index >>
tickVars == << callbacks, pending >>

\* ------------------------------------------------------------------ helpers
Top == stack[Len(stack)]
Pop(s) == SubSeq(s, 1, Len(s) - 1)
SetTop(s, f) == [s EXCEPT ![Len(s)] = f]
Range(s) == { s[j] : j \in 1..Len(s) }
Occurrences(s, x) == Cardinality({ j \in 1..Len(s) : s[j] = x })

\* A frame of the call stack.  k: "tick" (flushCallbacks), "flush"
\* (flushSchedulerQueue), "notify" (Dep.notify's loop), "get" (a getter running
\* inside Watcher.get), "cb" (a watcher callback running inside Watcher.run).
\* w: the watcher; pc: where the frame resumes ("ctor" | "run" | "evaluate" for
\* a get frame: who called get); subs, i: the loop's array and position;
\* reads, clean: history of a get frame (the Deps handed to addDep, and whether
\* the evaluation was undisturbed).
Frame(k, w, pc) ==
  [k |-> k, w |-> w, pc |-> pc, subs |-> << >>, i |-> 0, reads |-> {}, clean |-> TRUE]

\* The last step, for the properties to name it.
Ev(kind, w) ==
  [kind |-> kind, w |-> w, d |-> -1, pc |-> "", reads |-> {}, clean |-> TRUE,
   v |-> "undef", old |-> "undef", fired |-> FALSE, threw |-> FALSE, handled |-> FALSE,
   ob |-> {}, had |-> FALSE, o |-> "", key |-> "", by |-> "", args |-> << >>,
   res |-> << >>]

NoWatcher ==
  [user |-> FALSE, sync |-> FALSE, lazy |-> FALSE, deep |-> FALSE, active |-> FALSE,
   dirty |-> FALSE,
   deps |-> {}, newDeps |-> {}, depIds |-> {}, newDepIds |-> {}, value |-> "undef",
   \* history: evaluate() calls since the watcher was last notified (capped at 2)
   evals |-> 0,
   \* history: stale, update() was called in the current synchronous block and
   \* run() not since; owed, stale when the pending nextTick callback was registered
   \* and run() not since
   stale |-> FALSE, owed |-> FALSE]

\* The history of a flush.  start: the queue as the flush found it; runs: the run()
\* calls of the loop, in order; evals: those that called get(); reenq: the
\* watchers queued while flushing; quiet: the watchers that finished a run
\* without being queued again by it; throwers: the watchers whose error went to
\* handleError; warns: the 'infinite update loop' warnings; cut: "no", or why
\* the loop ended early ("guard" | "error"), and cutBy: at which watcher.
EmptyLog ==
  [start |-> << >>, runs |-> << >>, evals |-> << >>, reenq |-> {}, quiet |-> {},
   throwers |-> {}, warns |-> 0, cut |-> "no", cutBy |-> 0]

\* The components, each named by the id of its render watcher (vm._watcher):
\* activatedChildren of the scheduler; vm._isMounted and vm._isDestroyed; the
\* copies flushSchedulerQueue keeps of the two queues; and (history) the
\* hooks the last flush called, in order.
NoLifecycle ==
  [activatedChildren |-> << >>,
   isMounted |-> [c \in WatcherIds |-> FALSE],
   isDestroyed |-> [c \in WatcherIds |-> FALSE],
   activatedQueue |-> << >>, updatedQueue |-> << >>,
   hooks |-> << >>,
   \* the calls of initProps, updateChildComponent and validateProp in
   \* progress, and what the last one to return did to shouldObserve
   calls |-> << >>,
   returned |-> [fn |-> "none", before |-> TRUE, after |-> TRUE]]

\* ----------------------------------------------------------------- Dep
\* remove(arr, item): splice out the first occurrence (shared/util).
remove(arr, item) ==
  IF item \notin Range(arr) THEN arr
  ELSE LET j == CHOOSE j \in 1..Len(arr) :
                  arr[j] = item /\ \A h \in 1..(j - 1) : arr[h] # item
       IN SubSeq(arr, 1, j - 1) \o SubSeq(arr, j + 1, Len(arr))

addSub(ss, d, w) == [ss EXCEPT ![d] = Append(@, w)]

removeSub(ss, d, w) == [ss EXCEPT ![d] = remove(@, w)]

DepTarget == IF targetStack = << >> THEN 0 ELSE targetStack[Len(targetStack)]

pushTarget(ts, w) == Append(ts, w)

\* A popTarget that leaves no target.
popTargetToNone(ts) == << >>

popTarget(ts) == Pop(ts)

\* ------------------------------------------------------------- Watcher
\* An addDep that consults newDepIds only.
addDepEveryEvaluation(st, w, d) ==
  IF d \notin st.w[w].newDepIds
  THEN [w |-> [st.w EXCEPT ![w].newDepIds = @ \cup {d}, ![w].newDeps = @ \cup {d}],
        s |-> addSub(st.s, d, w)]
  ELSE st

\* Watcher.addDep on the pair st = [w |-> watchers, s |-> subs].
addDep(st, w, d) ==
  IF d \notin st.w[w].newDepIds
  THEN [w |-> [st.w EXCEPT ![w].newDepIds = @ \cup {d}, ![w].newDeps = @ \cup {d}],
        s |-> IF d \notin st.w[w].depIds THEN addSub(st.s, d, w) ELSE st.s]
  ELSE st

\* Dep.depend with Dep.target = t (0: no target).
depend(st, t, d) == IF t # 0 THEN addDep(st, t, d) ELSE st

\* A cleanupDeps that swaps the lists but unsubscribes from nothing.
cleanupDepsKeepingStale(st, w) ==
  [w |-> [st.w EXCEPT ![w].depIds = st.w[w].newDepIds, ![w].newDepIds = {},
                      ![w].deps = st.w[w].newDeps, ![w].newDeps = {}],
   s |-> st.s]

RECURSIVE dependAll(_, _, _)
\* Watcher.depend with Dep.target = t: this.deps[i].depend() for each of ds.
dependAll(st, t, ds) ==
  IF ds = {} THEN st
  ELSE LET d == CHOOSE x \in ds : TRUE
       IN dependAll(depend(st, t, d), t, ds \ {d})

\* Watcher.cleanupDeps.
cleanupDeps(st, w) ==
  LET me == st.w[w]
      stale == { d \in me.deps : d \notin me.newDepIds }
  IN [w |-> [st.w EXCEPT ![w].depIds = me.newDepIds, ![w].newDepIds = {},
                         ![w].deps = me.newDeps, ![w].newDeps = {}],
      s |-> [d \in DepIds |-> IF d \in stale THEN remove(st.s[d], w) ELSE st.s[d]]]

\* Watcher.teardown.
teardown(st, w) ==
  IF st.w[w].active
  THEN [w |-> [st.w EXCEPT ![w].active = FALSE],
        s |-> [d \in DepIds |-> IF d \in st.w[w].deps THEN remove(st.s[d], w) ELSE st.s[d]]]
  ELSE st

\* ------------------------------------------- Observer, defineReactive
\* newVal === value || (newVal !== newVal && value !== value)
StrictEq(x, y) == x = y /\ x # "NaN"
\* A setter whose comparison is === alone.
SameValueStrictOnly(newVal, value) == StrictEq(newVal, value)

SameValue(newVal, value) ==
  StrictEq(newVal, value) \/ (~StrictEq(newVal, newVal) /\ ~StrictEq(value, value))

isObject(v) == v \in Objs
isArray(v) == v \in Arrays
isPlainObject(v) == v \in Plain \cup {"vm", "vnode", "frozen"}
isVNode(v) == v = "vnode"
isVue(v) == v = "vm"
isExtensible(v) == v # "frozen"
\* a client build
isServerRendering == FALSE
hasOwn(o, k) == val[o][k] # Absent

\* dependArray(value): e && e.__ob__ && e.__ob__.dep.depend(), and the same
\* inside the elements that are arrays.
RECURSIVE dependArray(_, _, _, _)
dependArray(st, t, value, j) ==
  IF j > Len(value) THEN st
  ELSE LET e == value[j]
           own == IF isObject(e) /\ obOf[e] # {}
                  THEN depend(st, t, CHOOSE d \in obOf[e] : TRUE)
                  ELSE st
       IN dependArray(IF isArray(e) THEN dependArray(own, t, items[e], 1) ELSE own,
                      t, value, j + 1)

\* The Observer Deps dependArray(value) reaches.
RECURSIVE ArrayDeps(_, _)
ArrayDeps(value, j) ==
  IF j > Len(value) THEN {}
  ELSE LET e == value[j]
       IN (IF isObject(e) THEN obOf[e] ELSE {})
            \cup (IF isArray(e) THEN ArrayDeps(items[e], 1) ELSE {})
            \cup ArrayDeps(value, j + 1)

\* reactiveGetter of o[k] with Dep.target = t: dep.depend(), childOb.dep.depend().
reactiveGetter(st, t, o, k) ==
  LET own == IF propDep[o][k] = {} THEN st
             ELSE depend(st, t, CHOOSE d \in propDep[o][k] : TRUE)
      child == IF propDep[o][k] # {} /\ childOb[o][k] # {}
               THEN depend(own, t, CHOOSE d \in childOb[o][k] : TRUE)
               ELSE own
  IN IF propDep[o][k] # {} /\ childOb[o][k] # {} /\ isArray(val[o][k])
     THEN dependArray(child, t, items[val[o][k]], 1)
     ELSE child

\* The Deps a read of o[k] hands to Dep.target.addDep.
ReadDeps(o, k) ==
  IF propDep[o][k] = {} THEN {}
  ELSE propDep[o][k] \cup childOb[o][k]
         \cup (IF childOb[o][k] # {} /\ isArray(val[o][k])
               THEN ArrayDeps(items[val[o][k]], 1) ELSE {})

KeySeq == << "a", "b", "toString" >>

\* traverse(val) with Dep.target = t, on acc = [st |-> [w, s], seen |-> the
\* Dep ids of seenObjects]: _traverse(val, seen), and its loops over the
\* elements of an array and over Object.keys(val), last to first.
RECURSIVE traverseSeen(_, _, _)
RECURSIVE traverseItems(_, _, _, _)
RECURSIVE traverseKeys(_, _, _, _)
traverseSeen(acc, t, v) ==
  IF ~isObject(v) \/ ~isExtensible(v) \/ isVNode(v) THEN acc
  ELSE IF obOf[v] # {} /\ obOf[v] \subseteq acc.seen THEN acc
  ELSE LET acc1 == [acc EXCEPT !.seen = @ \cup obOf[v]]
       IN IF v \in Arrays THEN traverseItems(acc1, t, v, Len(items[v]))
          ELSE traverseKeys(acc1, t, v, Len(KeySeq))

traverseItems(acc, t, v, i) ==
  IF i = 0 THEN acc
  ELSE traverseItems(traverseSeen(acc, t, items[v][i]), t, v, i - 1)

traverseKeys(acc, t, v, i) ==
  IF i = 0 THEN acc
  ELSE IF val[v][KeySeq[i]] = Absent THEN traverseKeys(acc, t, v, i - 1)
  ELSE LET read == [acc EXCEPT !.st = reactiveGetter(acc.st, t, v, KeySeq[i])]
       IN traverseKeys(traverseSeen(read, t, val[v][KeySeq[i]]), t, v, i - 1)

traverse(st, t, v) == traverseSeen([st |-> st, seen |-> {}], t, v).st

\* observe(value) and new Observer(value) / walk / defineReactive, on the heap
\* h = [propDep, childOb, obOf, vmCount, depUid, shouldObserve].  __ob__ is
\* defined before the walk, so a cyclic object graph ends the recursion.
\* An observe that does not look for an existing __ob__.
observeAlwaysNew(h, value) ==
  IF ~isObject(value) THEN h
  ELSE [h EXCEPT !.obOf[value] = {h.depUid}, !.vmCount[value] = 0, !.depUid = @ + 1]

\* An observe that takes objects that are not extensible too.
canObserveSealed(h, value) ==
  /\ h.shouldObserve /\ ~isServerRendering
  /\ (isArray(value) \/ isPlainObject(value))
  /\ ~isVue(value)

\* The conditions of observe for a new Observer(value).
canObserve(h, value) ==
  /\ h.shouldObserve /\ ~isServerRendering
  /\ (isArray(value) \/ isPlainObject(value))
  /\ isExtensible(value)
  /\ ~isVue(value)

RECURSIVE observe(_, _), walk(_, _, _), observeArray(_, _, _)
observe(h, value) ==
  IF ~isObject(value) \/ isVNode(value) THEN h
  ELSE IF h.obOf[value] # {} THEN h
  ELSE IF canObserve(h, value)
       THEN LET h1 == [h EXCEPT !.obOf[value] = {h.depUid}, !.vmCount[value] = 0,
                                !.depUid = @ + 1]
            IN IF isArray(value) THEN observeArray(h1, items[value], 1)
               ELSE walk(h1, value, 1)
       ELSE h

\* Observer.observeArray from the j-th item on: observe(items[j]).
observeArray(h, its, j) ==
  IF j > Len(its) THEN h ELSE observeArray(observe(h, its[j]), its, j + 1)

\* Observer.walk from the j-th key on: defineReactive(obj, keys[j]) for the
\* keys obj has.
walk(h, obj, j) ==
  IF j > Len(KeySeq) THEN h
  ELSE IF ~hasOwn(obj, KeySeq[j]) THEN walk(h, obj, j + 1)
  ELSE LET key == KeySeq[j]
           h1 == [h EXCEPT !.propDep[obj][key] = {h.depUid}, !.depUid = @ + 1]
           h2 == observe(h1, val[obj][key])
           h3 == [h2 EXCEPT !.childOb[obj][key] =
                     IF isObject(val[obj][key]) THEN h2.obOf[val[obj][key]] ELSE {}]
       IN walk(h3, obj, j + 1)

Heap ==
  [propDep |-> propDep, childOb |-> childOb, obOf |-> obOf, vmCount |-> vmCount,
   depUid |-> depUid, shouldObserve |-> shouldObserve]

\* ----------------------------------------------------------- scheduler
\* has[id] is undefined, true or null; `has[id] == null` holds for the first
\* and the last.
hasIsNull(h, id) == h[id] # "true"

RECURSIVE SpliceIndex(_, _, _)
\* let i = queue.length - 1; while (i > index && queue[i].id > watcher.id) i--
SpliceIndex(q, i, w) ==
  IF i > index /\ q[i + 1] > w THEN SpliceIndex(q, i - 1, w) ELSE i

\* queue.splice(p, 0, w), p a JavaScript (0-based) position.
Splice(q, p, w) == SubSeq(q, 1, p) \o << w >> \o SubSeq(q, p + 1, Len(q))

\* A flush that leaves the queue in arrival order.
ArrivalOrder(q) == q

RECURSIVE SortById(_)
\* queue.sort((a, b) => a.id - b.id)
SortById(q) ==
  IF q = << >> THEN q
  ELSE LET m == CHOOSE x \in Range(q) : \A y \in Range(q) : x <= y
       IN << m >> \o SortById(remove(q, m))

\* The queue after queueWatcher's insertion of w.
Enqueue(q, w) ==
  IF ~flushing THEN Append(q, w)
  ELSE Splice(q, SpliceIndex(q, Len(q) - 1, w) + 1, w)

\* A queueWatcher that does not consult has[id].
queueWatcherAlways(w) ==
  [queue |-> Enqueue(queue, w),
   has |-> [has EXCEPT ![w] = "true"],
   waiting |-> TRUE,
   callbacks |-> IF ~waiting THEN Append(callbacks, "flushSchedulerQueue") ELSE callbacks,
   pending |-> IF ~waiting THEN TRUE ELSE pending]

\* A queueWatcher that hands the flush to nextTick for every watcher it queues.
queueWatcherEachTime(w) ==
  IF hasIsNull(has, w)
  THEN [queue |-> Enqueue(queue, w),
        has |-> [has EXCEPT ![w] = "true"],
        waiting |-> TRUE,
        callbacks |-> Append(callbacks, "flushSchedulerQueue"),
        pending |-> TRUE]
  ELSE [queue |-> queue, has |-> has, waiting |-> waiting, callbacks |-> callbacks,
        pending |-> pending]

\* A queueWatcher that leaves has[id] as it finds it.
queueWatcherUnmarked(w) ==
  IF hasIsNull(has, w)
  THEN [queue |-> Enqueue(queue, w),
        has |-> has,
        waiting |-> TRUE,
        callbacks |-> IF ~waiting THEN Append(callbacks, "flushSchedulerQueue")
                      ELSE callbacks,
        pending |-> IF ~waiting THEN TRUE ELSE pending]
  ELSE [queue |-> queue, has |-> has, waiting |-> waiting, callbacks |-> callbacks,
        pending |-> pending]

\* queueWatcher(watcher): the new [queue, has, waiting, callbacks, pending].
queueWatcher(w) ==
  IF hasIsNull(has, w)
  THEN [queue |-> Enqueue(queue, w),
        has |-> [has EXCEPT ![w] = "true"],
        waiting |-> TRUE,
        \* nextTick(flushSchedulerQueue)
        callbacks |-> IF ~waiting THEN Append(callbacks, "flushSchedulerQueue")
                      ELSE callbacks,
        pending |-> IF ~waiting THEN TRUE ELSE pending]
  ELSE [queue |-> queue, has |-> has, waiting |-> waiting, callbacks |-> callbacks,
        pending |-> pending]

\* ------------------------------------------------------------------- Init
\* The options a watcher is created with: the render watcher of
\* mountComponent, a user watcher ($watch), a sync user watcher, a computed
\* (lazy) watcher.
renderOptions == [user |-> FALSE, sync |-> FALSE, lazy |-> FALSE, deep |-> FALSE]
userOptions == [user |-> TRUE, sync |-> FALSE, lazy |-> FALSE, deep |-> FALSE]
syncOptions == [user |-> TRUE, sync |-> TRUE, lazy |-> FALSE, deep |-> FALSE]
computedWatcherOptions == [user |-> FALSE, sync |-> FALSE, lazy |-> TRUE, deep |-> FALSE]
\* $watch(expOrFn, cb, {deep: true})
deepOptions == [user |-> TRUE, sync |-> FALSE, lazy |-> FALSE, deep |-> TRUE]

\* A component's watchers in creation order: initState (initWatch) comes
\* before mountComponent, so the user watchers take the lower ids and the
\* render watcher the last one.
ComponentWatcher(n) == IF n < MaxWatchers THEN userOptions ELSE renderOptions

\* A component with computed properties: initComputed comes first in
\* initState, so the lazy watchers take the lowest ids.
ComputedComponent(n) == IF n < MaxWatchers THEN computedWatcherOptions ELSE renderOptions

RawHeap ==
  [propDep |-> [o \in Objs |-> [k \in Names |-> {}]],
   childOb |-> [o \in Objs |-> [k \in Names |-> {}]],
   obOf |-> [o \in Objs |-> {}],
   vmCount |-> [o \in Objs |-> 0],
   depUid |-> 0,
   shouldObserve |-> TRUE]

\* observe(value, asRootData)
observeAsRoot(h, value) ==
  LET h1 == observe(h, value)
  IN IF isObject(value) /\ h1.obOf[value] # {}
     THEN [h1 EXCEPT !.vmCount[value] = @ + 1] ELSE h1

InitControl ==
  /\ subs = [d \in DepIds |-> << >>]
  /\ targetStack = << >>
  /\ uid = 0
  /\ watchers = [w \in WatcherIds |-> NoWatcher]
  /\ queue = << >>
  /\ has = [w \in WatcherIds |-> "undef"]
  /\ circular = [w \in WatcherIds |-> 0]
  /\ waiting = FALSE
  /\ flushing = FALSE
  /\ index = 0
  /\ callbacks = << >>
  /\ pending = FALSE
  /\ compiler = [fn |-> "none"]
  /\ lifecycle = NoLifecycle
  /\ seenObjects = {}
  /\ stack = << >>
  /\ exc = FALSE
  /\ fuel = MaxFuel
  /\ ev = Ev("init", 0)
  /\ flushLog = EmptyLog

SetHeap(h) ==
  /\ propDep = h.propDep
  /\ childOb = h.childOb
  /\ obOf = h.obOf
  /\ vmCount = h.vmCount
  /\ depUid = h.depUid
  /\ shouldObserve = h.shouldObserve

\* After initData: observe(data, true) on data = {a: 'x', b: NaN}.
Init ==
  /\ val = [o \in Objs |-> [k \in Names |->
               CASE k \in ProtoKeys \/ o \notin Plain -> Absent
                 [] o = "data" -> (IF k = "a" THEN "x" ELSE "NaN")
                 [] OTHER -> "undef"]]
  /\ items = [o \in Arrays |-> << >>]
  /\ SetHeap(observeAsRoot(RawHeap, "data"))
  /\ InitControl

\* ----------------------------------------------------------- user actions
InUserCode == stack # << >> /\ Top.k \in {"get", "cb", "tickcb"}
AtTopLevel == stack = << >>
InFlush == \E j \in 1..Len(stack) : stack[j].k = "flush"
Evaluating(w) == \E j \in 1..Len(stack) : stack[j].k = "get" /\ stack[j].w = w

\* The stack with the Deps ds added to the reads of the evaluation that owns
\* Dep.target t (the innermost get frame of s), if any.
NoteReads(s, t, ds) ==
  IF t = 0 \/ ~\E j \in 1..Len(s) : s[j].k = "get" THEN s
  ELSE LET j == CHOOSE j \in 1..Len(s) :
                   s[j].k = "get" /\ \A h \in (j + 1)..Len(s) : s[h].k # "get"
       IN [s EXCEPT ![j].reads = @ \cup ds]

\* A side effect is open to the script between ticks, and to a getter or a
\* callback while the tick's fuel lasts.
MayAct == ~exc /\ (AtTopLevel \/ (InUserCode /\ fuel > 0))
Burn == IF AtTopLevel THEN fuel ELSE fuel - 1
\* A new synchronous block starts with full fuel.
Refuel(s) == IF s = << >> THEN MaxFuel ELSE fuel

\* new Watcher(vm, expOrFn, cb, options)
NewWatcher(opt) ==
  /\ ~exc /\ AtTopLevel /\ uid < MaxWatchers
  /\ LET w == uid + 1
         me == [NoWatcher EXCEPT !.user = opt.user, !.sync = opt.sync, !.lazy = opt.lazy,
                                 !.deep = opt.deep,
                                 !.active = TRUE, !.dirty = opt.lazy]
     IN /\ uid' = w
        /\ watchers' = [watchers EXCEPT ![w] = me]
        /\ IF opt.lazy
           THEN UNCHANGED << stack, targetStack >>
           ELSE /\ targetStack' = pushTarget(targetStack, w)
                /\ stack' = Append(stack, Frame("get", w, "ctor"))
        /\ ev' = Ev("new", w)
  /\ UNCHANGED << heapVars, compiler, lifecycle, seenObjects, subs, schedVars, tickVars, exc, fuel, flushLog >>

\* The position of the get frame of the evaluation Dep.target belongs to.
TargetFrame == CHOOSE j \in 1..Len(stack) :
                  stack[j].k = "get" /\ \A h \in (j + 1)..Len(stack) : stack[h].k # "get"

\* User code reads o[k]: reactiveGetter.
UserRead(o, k) ==
  /\ ~exc /\ InUserCode /\ DepTarget # 0 /\ ReadDeps(o, k) # {}
  /\ LET st == reactiveGetter([w |-> watchers, s |-> subs], DepTarget, o, k)
     IN /\ watchers' = st.w
        /\ subs' = st.s
  /\ stack' = [stack EXCEPT ![TargetFrame].reads = @ \cup ReadDeps(o, k)]
  /\ ev' = Ev("read", DepTarget)
  /\ UNCHANGED << heapVars, compiler, lifecycle, seenObjects, targetStack, uid, schedVars, tickVars, exc, fuel, flushLog >>

\* The values user code writes in this specification.
WriteVals == {"x", "NaN"}

\* reactiveSetter of o[k] called with newVal; the subscribers' update() calls
\* are made by the notify frame it leaves on the stack.
\* The reactiveSetter of o[k] called with newVal, by a plain assignment or
\* (by = "set") from Vue.set.
reactiveSetterBy(o, k, newVal, by) ==
  IF SameValue(newVal, val[o][k])
  THEN /\ UNCHANGED << heapVars, stack >>
       /\ ev' = [Ev("setSame", 0) EXCEPT !.v = newVal, !.old = val[o][k],
                                         !.d = CHOOSE d \in propDep[o][k] : TRUE,
                                         !.o = o, !.key = k, !.by = by, !.had = TRUE]
  ELSE LET h == observe(Heap, newVal)
           d == CHOOSE d \in propDep[o][k] : TRUE
       IN /\ val' = [val EXCEPT ![o][k] = newVal]
          /\ childOb' = [h.childOb EXCEPT ![o][k] =
                            IF isObject(newVal) THEN h.obOf[newVal] ELSE {}]
          /\ propDep' = h.propDep
          /\ obOf' = h.obOf
          /\ vmCount' = h.vmCount
          /\ depUid' = h.depUid
          /\ UNCHANGED << shouldObserve, items >>
          \* dep.notify(): const subs = this.subs.slice()
          /\ stack' = IF subs[d] = << >> THEN stack
                      ELSE Append(stack, [Frame("notify", 0, "") EXCEPT
                                             !.subs = subs[d], !.i = 1])
          /\ ev' = [Ev("set", 0) EXCEPT !.v = newVal, !.old = val[o][k], !.d = d,
                                        !.o = o, !.key = k, !.by = by, !.had = TRUE]

reactiveSetter(o, k, newVal) == reactiveSetterBy(o, k, newVal, "")

UserWrite(o, k, newVal) ==
  /\ MayAct /\ Len(stack) <= MaxDepth - 2
  /\ propDep[o][k] # {}
  /\ reactiveSetter(o, k, newVal)
  /\ fuel' = Burn
  /\ UNCHANGED << compiler, lifecycle, seenObjects, subs, targetStack, uid, watchers, schedVars, tickVars, exc, flushLog >>

\* set and del on any object, Vue instances and root data included.
refusesNothing(target) == FALSE

\* target._isVue || (ob && ob.vmCount)
isVueOrRootData(target) == isVue(target) \/ (obOf[target] # {} /\ vmCount[target] > 0)

\* Vue.set(target, key, val) on an object that is not an array.
set(target, key, v) ==
  /\ ~exc /\ AtTopLevel
  /\ isObject(target) /\ ~isArray(target)
  /\ IF (hasOwn(target, key) \/ key \in ProtoKeys) /\ key \notin ProtoKeys
     THEN \* target[key] = val
          IF propDep[target][key] # {}
          THEN reactiveSetterBy(target, key, v, "set")
          ELSE /\ val' = [val EXCEPT ![target][key] = v]
               /\ ev' = [Ev("assign", 0) EXCEPT !.v = v, !.old = val[target][key],
                                                !.o = target, !.key = key, !.by = "set",
                                                !.had = TRUE]
               /\ UNCHANGED << propDep, childOb, obOf, vmCount, shouldObserve, items,
                               depUid, stack >>
     ELSE IF isVueOrRootData(target)
     THEN \* a Vue instance or its root $data: warn, return val
          /\ ev' = [Ev("setRefused", 0) EXCEPT !.v = v, !.old = val[target][key],
                                               !.o = target, !.key = key, !.by = "set",
                                               !.had = hasOwn(target, key)]
          /\ UNCHANGED << heapVars, stack >>
     ELSE IF obOf[target] = {}
     THEN /\ val' = [val EXCEPT ![target][key] = v]
          /\ ev' = [Ev("assign", 0) EXCEPT !.v = v, !.old = val[target][key],
                                           !.o = target, !.key = key, !.by = "set",
                                           !.had = hasOwn(target, key)]
          /\ UNCHANGED << propDep, childOb, obOf, vmCount, shouldObserve, items, depUid,
                          stack >>
     ELSE \* defineReactive(ob.value, key, val); ob.dep.notify()
          LET h0 == [Heap EXCEPT !.depUid = @ + 1]
              h == observe(h0, v)
              d == CHOOSE x \in obOf[target] : TRUE
          IN /\ depUid < MaxDepUid
             \* accessors defined over existing ones call those: the getter
             \* returns the value the wrapped getter returns
             /\ val' = IF hasOwn(target, key) THEN val
                       ELSE [val EXCEPT ![target][key] = v]
             /\ propDep' = [h.propDep EXCEPT ![target][key] = {depUid}]
             /\ childOb' = [h.childOb EXCEPT ![target][key] =
                               IF isObject(v) THEN h.obOf[v] ELSE {}]
             /\ obOf' = h.obOf
             /\ vmCount' = h.vmCount
             /\ depUid' = h.depUid
             /\ stack' = IF subs[d] = << >> THEN stack
                         ELSE Append(stack, [Frame("notify", 0, "") EXCEPT
                                                !.subs = subs[d], !.i = 1])
             /\ ev' = [Ev("defineReactive", 0) EXCEPT
                          !.v = v, !.old = val[target][key], !.d = d, !.o = target,
                          !.key = key, !.by = "set", !.had = hasOwn(target, key),
                          !.fired = TRUE]
             /\ UNCHANGED << shouldObserve, items >>
  /\ UNCHANGED << compiler, lifecycle, seenObjects, subs, targetStack, uid, watchers, schedVars, tickVars, exc, fuel,
                  flushLog >>

\* Vue.delete(target, key) on an object that is not an array.
del(target, key) ==
  /\ ~exc /\ AtTopLevel
  /\ isObject(target) /\ ~isArray(target)
  /\ LET was == [Ev("del", 0) EXCEPT !.old = val[target][key], !.o = target, !.key = key,
                                      !.by = "del", !.had = hasOwn(target, key)]
     IN IF isVueOrRootData(target)
        THEN \* a Vue instance or its root $data: warn, return
             /\ ev' = [was EXCEPT !.kind = "delRefused"]
             /\ UNCHANGED << heapVars, stack >>
        ELSE IF ~hasOwn(target, key)
        THEN /\ ev' = [was EXCEPT !.kind = "delMissing"]
             /\ UNCHANGED << heapVars, stack >>
        ELSE \* delete target[key]; if (!ob) return; ob.dep.notify()
             /\ val' = [val EXCEPT ![target][key] = Absent]
             /\ propDep' = [propDep EXCEPT ![target][key] = {}]
             /\ childOb' = [childOb EXCEPT ![target][key] = {}]
             /\ UNCHANGED << obOf, vmCount, shouldObserve, items, depUid >>
             /\ IF obOf[target] = {}
                THEN /\ ev' = was
                     /\ UNCHANGED stack
                ELSE LET d == CHOOSE x \in obOf[target] : TRUE
                     IN /\ stack' = IF subs[d] = << >> THEN stack
                                    ELSE Append(stack, [Frame("notify", 0, "") EXCEPT
                                                           !.subs = subs[d], !.i = 1])
                        /\ ev' = [was EXCEPT !.d = d, !.fired = TRUE]
  /\ UNCHANGED << compiler, lifecycle, seenObjects, subs, targetStack, uid, watchers, schedVars, tickVars, exc,
                  fuel, flushLog >>

\* ------------------------------------------------------- array methods
methodsToPatch == {"push", "pop", "shift", "unshift", "splice", "sort", "reverse"}

\* original.apply(this, args): the array after the call and what the call
\* returns (a length, an element, the array of removed elements, or this).
\* sort without a comparator puts undefined last and orders the rest by their
\* strings ("NaN" < "[object Object]" < "x").
original(method, this, args) ==
  LET s == items[this]
      Min(x, y) == IF x < y THEN x ELSE y
      Reverse(q) == [j \in 1..Len(q) |-> q[Len(q) + 1 - j]]
      SortRank(v) == CASE v = "NaN" -> 1 [] isObject(v) -> 2 [] v = "x" -> 3 [] OTHER -> 4
      RECURSIVE NativeSort(_)
      NativeSort(q) ==
        IF Len(q) <= 1 THEN q
        ELSE LET rest == NativeSort(Tail(q))
                 p == Cardinality({ j \in 1..Len(rest) :
                                      SortRank(rest[j]) < SortRank(q[1]) })
             IN SubSeq(rest, 1, p) \o << q[1] >> \o SubSeq(rest, p + 1, Len(rest))
  IN CASE method = "push" ->
            [items |-> s \o args, result |-> << "number", Len(s) + Len(args) >>]
       [] method = "unshift" ->
            [items |-> args \o s, result |-> << "number", Len(s) + Len(args) >>]
       [] method = "pop" ->
            IF s = << >> THEN [items |-> s, result |-> << "element", "undef" >>]
            ELSE [items |-> Pop(s), result |-> << "element", s[Len(s)] >>]
       [] method = "shift" ->
            IF s = << >> THEN [items |-> s, result |-> << "element", "undef" >>]
            ELSE [items |-> Tail(s), result |-> << "element", Head(s) >>]
       [] method = "splice" ->
            LET start == Min(args[1], Len(s))
                deleteCount == Min(args[2], Len(s) - start)
            IN [items |-> SubSeq(s, 1, start) \o SubSeq(args, 3, Len(args))
                            \o SubSeq(s, start + deleteCount + 1, Len(s)),
                result |-> << "removed", SubSeq(s, start + 1, start + deleteCount) >>]
       [] method = "sort" -> [items |-> NativeSort(s), result |-> << "this", this >>]
       [] OTHER -> [items |-> Reverse(s), result |-> << "this", this >>]

\* A wrapper that takes the arguments of push alone for inserted elements.
insertedByPush(method, args) == IF method = "push" THEN args ELSE << >>

\* The switch of mutator: the inserted elements.
inserted(method, args) ==
  CASE method \in {"push", "unshift"} -> args
    [] method = "splice" -> SubSeq(args, 3, Len(args))
    [] OTHER -> << >>

\* this[method](...args) on an observed array (its methods are arrayMethods').
mutator(this, method, args) ==
  /\ ~exc /\ AtTopLevel
  /\ obOf[this] # {}
  /\ LET n == original(method, this, args)
         h == observeArray(Heap, inserted(method, args), 1)
         d == CHOOSE x \in obOf[this] : TRUE
     IN /\ Len(n.items) <= MaxLen
        /\ items' = [items EXCEPT ![this] = n.items]
        /\ propDep' = h.propDep
        /\ childOb' = h.childOb
        /\ obOf' = h.obOf
        /\ vmCount' = h.vmCount
        /\ depUid' = h.depUid
        \* ob.dep.notify()
        /\ stack' = IF subs[d] = << >> THEN stack
                    ELSE Append(stack, [Frame("notify", 0, "") EXCEPT
                                           !.subs = subs[d], !.i = 1])
        /\ ev' = [Ev("mutator", 0) EXCEPT !.o = this, !.key = method, !.d = d,
                                          !.args = args, !.res = n.result]
  /\ UNCHANGED << compiler, lifecycle, seenObjects, val, shouldObserve, subs, targetStack, uid, watchers, schedVars,
                  tickVars, exc, fuel, flushLog >>

\* A user watcher whose evaluator, re-run by the flush, changes a property
\* the watcher is subscribed to (an update loop).
SelfInvalidate(o, k, newVal) ==
  /\ ~exc /\ stack # << >> /\ Top.k = "get" /\ Top.pc = "run" /\ InFlush
  /\ watchers[Top.w].user
  /\ propDep[o][k] # {} /\ propDep[o][k] \subseteq watchers[Top.w].depIds
  /\ ~SameValue(newVal, val[o][k])
  /\ reactiveSetter(o, k, newVal)
  /\ UNCHANGED << compiler, lifecycle, seenObjects, subs, targetStack, uid, watchers, schedVars, tickVars, exc, fuel,
                  flushLog >>

\* observe(value, asRootData) called on its own (initData, Vue.observable).
Observe(value, asRootData) ==
  /\ ~exc /\ AtTopLevel
  /\ (isObject(value) /\ asRootData) => vmCount[value] < MaxVmCount
  /\ LET h == IF asRootData THEN observeAsRoot(Heap, value) ELSE observe(Heap, value)
     IN /\ propDep' = h.propDep
        /\ childOb' = h.childOb
        /\ obOf' = h.obOf
        /\ vmCount' = h.vmCount
        /\ depUid' = h.depUid
        /\ ev' = [Ev("observe", 0) EXCEPT
                     !.v = value,
                     !.ob = IF isObject(value) THEN h.obOf[value] ELSE {},
                     !.had = isObject(value) /\ obOf[value] # {}]
  /\ UNCHANGED << compiler, lifecycle, seenObjects, val, shouldObserve, items, subs, targetStack, uid, watchers, schedVars,
                  tickVars, stack, exc, fuel, flushLog >>

toggleObserving(value) ==
  /\ ~exc /\ AtTopLevel
  /\ shouldObserve' = value
  /\ ev' = Ev("toggleObserving", 0)
  /\ UNCHANGED << compiler, lifecycle, seenObjects, val, propDep, childOb, obOf, vmCount, items, depUid, subs, targetStack,
                  uid, watchers, schedVars, tickVars, stack, exc, fuel, flushLog >>

\* ------------------------------------------------ traverse, step by step
\* if (val.__ob__) { if (seen.has(depId)) return ... }
met(seen, v) == obOf[v] # {} /\ obOf[v] \subseteq seen

\* _traverse(val, seen) goes on to its loop: val is an object, not frozen
\* and no VNode, and its Observer has not been met.
goesInto(seen, v) ==
  isObject(v) /\ isExtensible(v) /\ ~isVNode(v) /\ ~met(seen, v)

\* The arrays among the elements of array a.
ArrayRefs(a) == { items[a][j] : j \in 1..Len(items[a]) } \cap Arrays

RECURSIVE ArrayClosure(_, _)
\* The arrays reached from those of S through n elements or fewer.
ArrayClosure(S, n) ==
  IF n = 0 THEN S
  ELSE ArrayClosure(S \cup UNION { ArrayRefs(a) : a \in S }, n - 1)

\* dependArray(a) calls itself on every element that is an array, with no
\* note of the arrays it has been to: on an array that holds itself, at any
\* depth, the recursion has no end but the engine's stack limit (RangeError).
dependArrayOverflows(a) ==
  \E b \in ArrayClosure({a}, Cardinality(Arrays)) :
    b \in ArrayClosure(ArrayRefs(b), Cardinality(Arrays))

\* The frame of the loop of _traverse(v, seen): i elements or keys to come.
TraverseFrame(t, v) ==
  [Frame("traverse", t, v) EXCEPT !.i = IF isArray(v) THEN Len(items[v]) ELSE Len(KeySeq)]

\* Watcher.get of the deep watcher that is Dep.target, the getter having
\* returned v: traverse(v) begins (the get() before, if any, has ended with
\* cleanupDeps).  ev.res is the history of the call: the objects gone into.
traverseCall(v) ==
  /\ stack = << >> /\ targetStack # << >>
  /\ LET t == targetStack[Len(targetStack)]
         st == cleanupDeps([w |-> watchers, s |-> subs], t)
     IN /\ watchers' = st.w
        /\ subs' = st.s
        /\ IF goesInto(seenObjects, v)
           THEN /\ stack' = << TraverseFrame(t, v) >>
                /\ seenObjects' = seenObjects \cup obOf[v]
                /\ ev' = [Ev("_traverse", t) EXCEPT !.o = v, !.res = << v >>]
           ELSE \* _traverse returns at once; seenObjects.clear()
                /\ stack' = << >>
                /\ seenObjects' = {}
                /\ ev' = [Ev("traverse", t) EXCEPT !.o = v]
  /\ UNCHANGED << heapVars, compiler, lifecycle, targetStack, uid, schedVars, tickVars, exc,
                  fuel, flushLog >>

\* A turn of the loop of _traverse: val[i] or val[keys[i]] is read, by its
\* reactive getter if it has one, and _traverse is called on it.
traverseStep ==
  /\ stack # << >> /\ Top.k = "traverse" /\ Top.i > 0
  /\ Len(stack) < MaxDepth * Cardinality(Objs)
  /\ LET v == Top.pc
         isA == isArray(v)
         child == IF isA THEN items[v][Top.i] ELSE val[v][KeySeq[Top.i]]
         st == IF isA \/ child = Absent THEN [w |-> watchers, s |-> subs]
               ELSE reactiveGetter([w |-> watchers, s |-> subs], Top.w, v, KeySeq[Top.i])
         loop == SetTop(stack, [Top EXCEPT !.i = @ - 1])
     IN IF ~isA /\ child \in Arrays /\ propDep[v][KeySeq[Top.i]] # {}
             /\ childOb[v][KeySeq[Top.i]] # {} /\ dependArrayOverflows(child)
        THEN \* the getter's dependArray(value) overflows the stack: the error
             \* leaves traverse, and the finally block of Watcher.get, at once
             /\ watchers' = depend(depend([w |-> watchers, s |-> subs], Top.w,
                                          CHOOSE d \in propDep[v][KeySeq[Top.i]] : TRUE),
                                   Top.w, CHOOSE d \in childOb[v][KeySeq[Top.i]] : TRUE).w
             /\ subs' = depend(depend([w |-> watchers, s |-> subs], Top.w,
                                      CHOOSE d \in propDep[v][KeySeq[Top.i]] : TRUE),
                               Top.w, CHOOSE d \in childOb[v][KeySeq[Top.i]] : TRUE).s
             /\ stack' = << >>
             /\ UNCHANGED seenObjects
             /\ ev' = [Ev("RangeError", Top.w) EXCEPT !.o = v, !.res = ev.res, !.threw = TRUE]
        ELSE /\ watchers' = st.w
             /\ subs' = st.s
             /\ IF child # Absent /\ goesInto(seenObjects, child)
                THEN /\ stack' = Append(loop, TraverseFrame(Top.w, child))
                     /\ seenObjects' = seenObjects \cup obOf[child]
                     /\ ev' = [Ev("_traverse", Top.w) EXCEPT !.o = child,
                                                              !.res = Append(ev.res, child)]
                ELSE /\ stack' = loop
                     /\ UNCHANGED seenObjects
                     /\ ev' = [Ev("read", Top.w) EXCEPT !.o = v, !.res = ev.res]
  /\ UNCHANGED << heapVars, compiler, lifecycle, targetStack, uid, schedVars, tickVars, exc,
                  fuel, flushLog >>

\* The loop of _traverse is over: the call returns, and after the outermost
\* one traverse does seenObjects.clear().
traverseReturn ==
  /\ stack # << >> /\ Top.k = "traverse" /\ Top.i = 0
  /\ stack' = Pop(stack)
  /\ seenObjects' = IF Len(stack) = 1 THEN {} ELSE seenObjects
  /\ ev' = [Ev(IF Len(stack) = 1 THEN "traverse" ELSE "_traverseDone", Top.w)
              EXCEPT !.o = stack[1].pc, !.res = ev.res]
  /\ UNCHANGED << heapVars, compiler, lifecycle, subs, targetStack, uid, watchers, schedVars,
                  tickVars, exc, fuel, flushLog >>

\* ------------------------------------------- props, injections and the toggle
\* User code is running outside the scheduler: a script, or the default
\* factory of a prop (getPropDefaultValue's def.call(vm)).
InScriptOrFactory(lc) ==
  \/ lc.calls = << >>
  \/ lc.calls # << >> /\ lc.calls[Len(lc.calls)].fn = "validateProp"

\* The loop over the props, in initProps or updateChildComponent.
InPropsLoop(lc) ==
  /\ lc.calls # << >>
  /\ lc.calls[Len(lc.calls)].fn \in {"initProps", "updateChildComponent"}

TogglesOnly ==
  UNCHANGED << compiler, seenObjects, val, propDep, childOb, obOf, vmCount, items,
               depUid, subs, targetStack, uid, watchers, schedVars, tickVars, stack, exc, fuel,
               flushLog >>

\* initProps(vm, propsOptions) up to its loop, n props to come: user code
\* constructs a component, with a parent or without.
initProps(isRoot, n) ==
  /\ InScriptOrFactory(lifecycle) /\ Len(lifecycle.calls) < MaxDepth
  /\ shouldObserve' = IF ~isRoot THEN FALSE ELSE shouldObserve
  /\ lifecycle' = [lifecycle EXCEPT !.calls = Append(@,
                     [fn |-> "initProps", n |-> n, before |-> shouldObserve])]
  /\ ev' = Ev("initProps", 0)
  /\ TogglesOnly

\* updateChildComponent(vm, propsData, ...) up to its loop over the props:
\* the patch of a re-rendering parent, vm having props.
updateChildComponent(n) ==
  /\ lifecycle.calls = << >>
  /\ shouldObserve' = FALSE
  /\ lifecycle' = [lifecycle EXCEPT !.calls = Append(@,
                     [fn |-> "updateChildComponent", n |-> n, before |-> shouldObserve])]
  /\ ev' = Ev("updateChildComponent", 0)
  /\ TogglesOnly

\* validateProp(key, propOptions, propsData, vm) in the loop: a value that is
\* passed is returned; for an absent one getPropDefaultValue calls the
\* default factory, user code.
validateProp(absent) ==
  /\ InPropsLoop(lifecycle) /\ lifecycle.calls[Len(lifecycle.calls)].n > 0
  /\ lifecycle' =
       IF absent
       THEN [lifecycle EXCEPT !.calls = Append(@,
               [fn |-> "validateProp", n |-> 0, before |-> shouldObserve])]
       ELSE [lifecycle EXCEPT !.calls[Len(lifecycle.calls)].n = @ - 1]
  /\ ev' = Ev("validateProp", 0)
  /\ UNCHANGED shouldObserve
  /\ TogglesOnly

\* The default factory returns: validateProp saves shouldObserve, switches it
\* on, observes the value, and puts the saved value back.
getPropDefaultValue ==
  /\ lifecycle.calls # << >> /\ lifecycle.calls[Len(lifecycle.calls)].fn = "validateProp"
  /\ LET prevShouldObserve == shouldObserve
         n == Len(lifecycle.calls)
     IN /\ shouldObserve' = prevShouldObserve
        /\ lifecycle' = [lifecycle EXCEPT
               !.calls = [Pop(@) EXCEPT ![n - 1].n = @ - 1],
               !.returned = [fn |-> "validateProp", before |-> prevShouldObserve,
                             after |-> prevShouldObserve]]
  /\ ev' = Ev("getPropDefaultValue", 0)
  /\ TogglesOnly

\* The end of initProps and of the props of updateChildComponent:
\* toggleObserving(true).
propsReturn ==
  /\ InPropsLoop(lifecycle) /\ lifecycle.calls[Len(lifecycle.calls)].n = 0
  /\ shouldObserve' = TRUE
  /\ lifecycle' = [lifecycle EXCEPT
         !.calls = Pop(@),
         !.returned = [fn |-> lifecycle.calls[Len(lifecycle.calls)].fn,
                       before |-> lifecycle.calls[Len(lifecycle.calls)].before,
                       after |-> TRUE]]
  /\ ev' = Ev("propsReturn", 0)
  /\ TogglesOnly

\* initInjections(vm): result is what resolveInject found, if anything.
initInjections(result) ==
  /\ InScriptOrFactory(lifecycle)
  /\ shouldObserve' = IF result THEN TRUE ELSE shouldObserve
  /\ lifecycle' = [lifecycle EXCEPT
         !.returned = [fn |-> "initInjections", before |-> shouldObserve,
                       after |-> shouldObserve']]
  /\ ev' = Ev("initInjections", 0)
  /\ TogglesOnly

\* User code reads the computed property of lazy watcher w (computedGetter):
\* evaluate() if the watcher is dirty, then watcher.depend(), and the cached
\* value is returned.
ComputedRead(w) ==
  /\ ~exc /\ (AtTopLevel \/ InUserCode)
  /\ w <= uid /\ watchers[w].lazy
  /\ ~\E j \in 1..Len(stack) : stack[j].k = "get" /\ stack[j].w = w
  /\ Len(stack) <= MaxDepth - 1
  /\ IF watchers[w].dirty
     THEN /\ stack' = Append(stack, Frame("get", w, "evaluate"))
          /\ targetStack' = pushTarget(targetStack, w)
          /\ watchers' = [watchers EXCEPT ![w].evals = IF @ < 2 THEN @ + 1 ELSE @]
          /\ ev' = [Ev("computedRead", w) EXCEPT !.fired = TRUE, !.old = watchers[w].value]
          /\ UNCHANGED subs
     ELSE LET st == dependAll([w |-> watchers, s |-> subs], DepTarget, watchers[w].deps)
          IN /\ watchers' = st.w
             /\ subs' = st.s
             /\ stack' = NoteReads(stack, DepTarget, watchers[w].deps)
             /\ ev' = [Ev("computedRead", w) EXCEPT !.v = watchers[w].value,
                                                    !.old = watchers[w].value]
             /\ UNCHANGED targetStack
  /\ UNCHANGED << heapVars, compiler, lifecycle, seenObjects, uid, schedVars, tickVars, exc, fuel, flushLog >>

\* callHook(vm, hook) and getData(data, vm) up to the call of the user's
\* function: pushTarget() with no watcher.
callHook ==
  /\ ~exc /\ (IF AtTopLevel THEN TRUE ELSE Top.k = "get")
  /\ Len(stack) <= MaxDepth - 1
  /\ targetStack' = pushTarget(targetStack, 0)
  /\ stack' = Append(stack, Frame("hook", 0, ""))
  /\ ev' = Ev("callHook", 0)
  /\ UNCHANGED << heapVars, compiler, lifecycle, seenObjects, subs, uid, watchers, schedVars, tickVars, exc, fuel,
                  flushLog >>

\* The hook or data() returns, or throws into invokeWithErrorHandling (the
\* try of getData), and popTarget() follows.
HookReturn ==
  /\ ~exc /\ stack # << >> /\ Top.k = "hook"
  /\ targetStack' = popTarget(targetStack)
  /\ stack' = Pop(stack)
  /\ ev' = Ev("hookDone", 0)
  /\ UNCHANGED << heapVars, compiler, lifecycle, seenObjects, subs, uid, watchers, schedVars, tickVars, exc, fuel,
                  flushLog >>

\* A script or a hook reads o[k] while Dep.target is empty:
\* reactiveGetter.
UntrackedRead(o, k) ==
  /\ ~exc /\ DepTarget = 0 /\ ReadDeps(o, k) # {}
  /\ IF AtTopLevel THEN TRUE ELSE Top.k = "hook"
  /\ LET st == reactiveGetter([w |-> watchers, s |-> subs], DepTarget, o, k)
     IN /\ watchers' = st.w
        /\ subs' = st.s
  /\ ev' = [Ev("read", 0) EXCEPT !.o = o, !.key = k]
  /\ UNCHANGED << heapVars, compiler, lifecycle, seenObjects, targetStack, uid, schedVars, tickVars, stack, exc, fuel,
                  flushLog >>

\* A synchronous block ends: no watcher was invalidated in the next one yet.
BlockEnd(ws) == [w \in WatcherIds |-> [ws[w] EXCEPT !.stale = FALSE]]

\* The callbacks of the running tick that have not been called yet.
CopiesLeft ==
  IF stack # << >> /\ stack[1].k = "tick"
  THEN { stack[1].subs[j] : j \in stack[1].i..Len(stack[1].subs) }
  ELSE {}

\* nextTick(cb) called by user code: the wrapper of cb is pushed on callbacks
\* and, unless a tick is pending, one is requested.  One user callback is
\* outstanding at a time.
NextTick ==
  /\ MayAct
  /\ "cb" \notin Range(callbacks) \cup CopiesLeft
  /\ callbacks' = Append(callbacks, "cb")
  /\ pending' = TRUE
  /\ watchers' = [w \in WatcherIds |-> [watchers[w] EXCEPT !.owed = watchers[w].stale]]
  /\ ev' = [Ev("nextTick", 0) EXCEPT !.fired = \E w \in WatcherIds : watchers[w].stale]
  /\ fuel' = Burn
  /\ UNCHANGED << heapVars, compiler, lifecycle, seenObjects, subs, targetStack, uid, schedVars, stack, exc, flushLog >>

\* watcher.teardown() called by user code (unwatch, $destroy).
UserTeardown(w) ==
  /\ MayAct /\ w <= uid /\ watchers[w].active
  /\ LET st == teardown([w |-> watchers, s |-> subs], w)
     IN /\ watchers' = st.w
        /\ subs' = st.s
  /\ stack' = [j \in 1..Len(stack) |->
                 IF stack[j].k = "get" /\ stack[j].w = w
                 THEN [stack[j] EXCEPT !.clean = FALSE] ELSE stack[j]]
  /\ fuel' = Burn
  /\ ev' = Ev("teardown", w)
  /\ UNCHANGED << heapVars, compiler, lifecycle, seenObjects, targetStack, uid, schedVars, tickVars, exc, flushLog >>

\* A getter or a callback throws.
UserThrow ==
  /\ ~exc /\ InUserCode
  /\ exc' = TRUE
  /\ ev' = Ev("throw", Top.w)
  /\ UNCHANGED << heapVars, compiler, lifecycle, seenObjects, subs, targetStack, uid, watchers, schedVars, tickVars,
                  stack, fuel, flushLog >>

\* ------------------------------------------------------ framework steps

\* A run() that does not look at this.active.
runAlways(me) == TRUE

\* Watcher.run: if (this.active), whether run() calls this.get().
run(me) == me.active

\* Watcher.get entered for w (pushTarget); an evaluation of w already in
\* progress is marked as disturbed, and so is the new one.
PushGet(s, w, why) ==
  LET nested == \E j \in 1..Len(s) : s[j].k = "get" /\ s[j].w = w
      marked == IF s = << >> THEN s
                ELSE [j \in 1..Len(s) |->
                        IF s[j].k = "get" /\ s[j].w = w
                        THEN [s[j] EXCEPT !.clean = FALSE] ELSE s[j]]
  IN Append(marked, [Frame("get", w, why) EXCEPT !.clean = ~nested])

\* A run() that compares as the setter does (NaN equal to NaN).
runInvokesCbSameValue(value, cached, deep) ==
  ~SameValue(value, cached) \/ isObject(value) \/ deep

\* Watcher.run: value !== this.value || isObject(value) || this.deep
runInvokesCb(value, cached, deep) ==
  ~StrictEq(value, cached) \/ isObject(value) \/ deep

\* Watcher.get from `finally` on, the getter having produced v (undefined when
\* it threw and the error was handled), and then what the caller of get does
\* with v: the constructor and evaluate() store it, run() compares it and
\* calls the callback.
FinishGet(v, threw) ==
  LET f == Top
      w == f.w
      \* finally: if (this.deep) traverse(value); popTarget(); this.cleanupDeps()
      deep == IF watchers[w].deep THEN traverse([w |-> watchers, s |-> subs], w, v)
              ELSE [w |-> watchers, s |-> subs]
      st == cleanupDeps(deep, w)
      fire == f.pc = "run" /\ runInvokesCb(v, st.w[w].value, st.w[w].deep)
      \* evaluate(): this.value = this.get(); this.dirty = false; and then
      \* computedGetter: if (Dep.target) watcher.depend()
      t == IF popTarget(targetStack) = << >> THEN 0
           ELSE popTarget(targetStack)[Len(targetStack) - 1]
      done == [w |-> [st.w EXCEPT ![w].value = v, ![w].dirty = FALSE], s |-> st.s]
      after == dependAll(done, t, done.w[w].deps)
  IN /\ targetStack' = popTarget(targetStack)
     /\ subs' = IF f.pc = "evaluate" THEN after.s ELSE st.s
     /\ watchers' = CASE f.pc = "ctor" -> [st.w EXCEPT ![w].value = v]
                      [] f.pc = "run" -> IF fire THEN [st.w EXCEPT ![w].value = v] ELSE st.w
                      [] OTHER -> after.w
     /\ stack' = CASE fire -> SetTop(stack, Frame("cb", w, ""))
                   [] f.pc = "evaluate" -> NoteReads(Pop(stack), t, done.w[w].deps)
                   [] OTHER -> Pop(stack)
     /\ ev' = [Ev("getDone", w) EXCEPT !.pc = f.pc,
                                       !.reads = f.reads \cup (deep.w[w].newDepIds
                                                                 \ watchers[w].newDepIds),
                                       !.clean = f.clean,
                                       !.v = v, !.old = watchers[w].value,
                                       !.fired = fire, !.threw = threw, !.handled = threw]

\* The getter returns v.
GetterReturn(v) ==
  /\ ~exc /\ stack # << >> /\ Top.k = "get"
  \* updateComponent returns nothing
  /\ watchers[Top.w].user \/ watchers[Top.w].lazy \/ v = "undef"
  /\ FinishGet(v, FALSE)
  /\ fuel' = Refuel(stack')
  /\ UNCHANGED << heapVars, compiler, lifecycle, seenObjects, uid, schedVars, tickVars, exc, flushLog >>

\* The callback returns.
CbReturn ==
  /\ ~exc /\ stack # << >> /\ Top.k = "cb"
  /\ stack' = Pop(stack)
  /\ ev' = Ev("cbDone", Top.w)
  /\ fuel' = Refuel(stack')
  /\ UNCHANGED << heapVars, compiler, lifecycle, seenObjects, subs, targetStack, uid, watchers, schedVars, tickVars,
                  exc, flushLog >>

\* Dep.notify's loop: subs[i].update().
NotifyStep ==
  /\ ~exc /\ stack # << >> /\ Top.k = "notify" /\ Top.i <= Len(Top.subs)
  /\ LET w == Top.subs[Top.i]
         me == watchers[w]
         next == SetTop(stack, [Top EXCEPT !.i = @ + 1])
     IN CASE me.lazy ->
               /\ watchers' = [watchers EXCEPT ![w].dirty = TRUE, ![w].evals = 0]
               /\ stack' = next
               /\ ev' = Ev("dirty", w)
               /\ UNCHANGED << targetStack, schedVars, tickVars, flushLog >>
          [] ~me.lazy /\ me.sync ->
               \* run(): if (this.active) { const value = this.get() ... }
               /\ IF run(me)
                  THEN /\ stack' = PushGet(next, w, "run")
                       /\ targetStack' = pushTarget(targetStack, w)
                  ELSE /\ stack' = next
                       /\ UNCHANGED targetStack
               /\ ev' = Ev("syncRun", w)
               /\ UNCHANGED << watchers, schedVars, tickVars, flushLog >>
          [] OTHER ->
               LET q == queueWatcher(w)
               IN /\ queue' = q.queue
                  /\ has' = q.has
                  /\ waiting' = q.waiting
                  /\ callbacks' = q.callbacks
                  /\ pending' = q.pending
                  /\ flushLog' = IF flushing /\ hasIsNull(has, w)
                                 THEN [flushLog EXCEPT !.reenq = @ \cup {w}]
                                 ELSE flushLog
                  /\ stack' = next
                  /\ watchers' = [watchers EXCEPT ![w].stale = TRUE]
                  /\ ev' = [Ev("queueWatcher", w) EXCEPT !.fired = hasIsNull(has, w)]
                  /\ UNCHANGED << targetStack, circular, flushing, index >>
  /\ UNCHANGED << heapVars, compiler, lifecycle, seenObjects, subs, uid, exc, fuel >>

NotifyEnd ==
  /\ ~exc /\ stack # << >> /\ Top.k = "notify" /\ Top.i > Len(Top.subs)
  /\ stack' = Pop(stack)
  /\ ev' = Ev("notified", 0)
  /\ fuel' = Refuel(stack')
  /\ UNCHANGED << heapVars, compiler, lifecycle, seenObjects, subs, targetStack, uid, watchers, schedVars, tickVars,
                  exc, flushLog >>

\* The microtask: flushCallbacks starts once the synchronous block has ended.
TickStart ==
  /\ ~exc /\ AtTopLevel /\ pending
  /\ pending' = FALSE
  /\ callbacks' = << >>
  /\ stack' = << [Frame("tick", 0, "") EXCEPT !.subs = callbacks, !.i = 1] >>
  /\ watchers' = BlockEnd(watchers)
  /\ ev' = Ev("tick", 0)
  /\ UNCHANGED << heapVars, compiler, lifecycle, seenObjects, subs, targetStack, uid, schedVars, exc, fuel, flushLog >>

\* copies[i](): flushSchedulerQueue begins (flushing = true, the sort, index = 0).
TickStep ==
  /\ ~exc /\ stack # << >> /\ Top.k = "tick" /\ Top.i <= Len(Top.subs)
  /\ Top.subs[Top.i] = "flushSchedulerQueue"
  /\ flushing' = TRUE
  /\ queue' = SortById(queue)
  /\ index' = 0
  /\ stack' = Append(SetTop(stack, [Top EXCEPT !.i = @ + 1]), Frame("flush", 0, "loop"))
  /\ flushLog' = [EmptyLog EXCEPT !.start = queue]
  /\ ev' = Ev("flushStart", 0)
  /\ UNCHANGED << heapVars, compiler, lifecycle, seenObjects, subs, targetStack, uid, watchers, has, circular, waiting,
                  tickVars, exc, fuel >>

\* copies[i](): the wrapper of a user callback calls cb.
TickCallback ==
  /\ ~exc /\ stack # << >> /\ Top.k = "tick" /\ Top.i <= Len(Top.subs)
  /\ Top.subs[Top.i] = "cb"
  /\ stack' = Append(SetTop(stack, [Top EXCEPT !.i = @ + 1]), Frame("tickcb", 0, ""))
  /\ ev' = [Ev("tickCb", 0) EXCEPT !.fired = \E w \in WatcherIds : watchers[w].owed]
  /\ fuel' = MaxFuel
  /\ UNCHANGED << heapVars, compiler, lifecycle, seenObjects, subs, targetStack, uid, watchers, schedVars, tickVars, exc,
                  flushLog >>

\* The user callback returns.
TickCallbackReturn ==
  /\ ~exc /\ stack # << >> /\ Top.k = "tickcb"
  /\ stack' = Pop(stack)
  /\ ev' = Ev("tickCbDone", 0)
  /\ UNCHANGED << heapVars, compiler, lifecycle, seenObjects, subs, targetStack, uid, watchers, schedVars, tickVars, exc,
                  fuel, flushLog >>

TickEnd ==
  /\ ~exc /\ stack # << >> /\ Top.k = "tick" /\ Top.i > Len(Top.subs)
  /\ stack' = Pop(stack)
  /\ flushLog' = EmptyLog
  /\ watchers' = BlockEnd(watchers)
  /\ ev' = Ev("tickDone", 0)
  /\ fuel' = Refuel(stack')
  /\ UNCHANGED << heapVars, compiler, lifecycle, seenObjects, subs, targetStack, uid, schedVars, tickVars, exc >>

\* The flush loop's body up to watcher.run(): has[id] = null; watcher.run().
FlushStep ==
  /\ ~exc /\ stack # << >> /\ Top.k = "flush" /\ Top.pc = "loop" /\ index < Len(queue)
  /\ LET w == queue[index + 1]
         here == SetTop(stack, [Top EXCEPT !.w = w, !.pc = "ran"])
     IN /\ has' = [has EXCEPT ![w] = "null"]
        /\ IF run(watchers[w])
           THEN /\ stack' = PushGet(here, w, "run")
                /\ targetStack' = pushTarget(targetStack, w)
           ELSE /\ stack' = here
                /\ UNCHANGED targetStack
        /\ flushLog' = [flushLog EXCEPT !.runs = Append(@, w),
                                        !.evals = IF run(watchers[w])
                                                  THEN Append(@, w) ELSE @]
        /\ watchers' = [watchers EXCEPT ![w].stale = FALSE, ![w].owed = FALSE]
        /\ ev' = Ev("run", w)
  /\ UNCHANGED << heapVars, compiler, lifecycle, seenObjects, subs, uid, queue, circular, waiting, flushing,
                  index, tickVars, exc, fuel >>

\* A guard that trips on reaching the count.
atMaxUpdateCount(count) == count >= MAX_UPDATE_COUNT

\* circular[id] > MAX_UPDATE_COUNT
overMaxUpdateCount(count) == count > MAX_UPDATE_COUNT

\* After watcher.run() returned: the circular-update check (development
\* build), then index++ or break.
FlushAfterRun ==
  /\ ~exc /\ stack # << >> /\ Top.k = "flush" /\ Top.pc = "ran"
  /\ LET id == Top.w
         count == circular[id] + 1
     IN IF ~hasIsNull(has, id)
        THEN /\ circular' = [circular EXCEPT ![id] = count]
             /\ IF overMaxUpdateCount(count)
                THEN /\ stack' = SetTop(stack, [Top EXCEPT !.pc = "end"])
                     /\ flushLog' = [flushLog EXCEPT !.warns = @ + 1, !.cut = "guard",
                                                     !.cutBy = id]
                     /\ ev' = Ev("warn", id)
                     /\ UNCHANGED index
                ELSE /\ stack' = SetTop(stack, [Top EXCEPT !.pc = "loop"])
                     /\ index' = index + 1
                     /\ ev' = Ev("next", id)
                     /\ UNCHANGED flushLog
        ELSE /\ stack' = SetTop(stack, [Top EXCEPT !.pc = "loop"])
             /\ index' = index + 1
             /\ flushLog' = [flushLog EXCEPT !.quiet = @ \cup {id}]
             /\ ev' = Ev("next", id)
             /\ UNCHANGED circular
  /\ UNCHANGED << heapVars, compiler, lifecycle, seenObjects, subs, targetStack, uid, watchers, queue, has, waiting,
                  flushing, tickVars, exc, fuel >>

\* resetSchedulerState()
resetSchedulerState ==
  /\ index' = 0
  /\ queue' = << >>
  /\ has' = [w \in WatcherIds |-> "undef"]
  /\ circular' = [w \in WatcherIds |-> 0]
  /\ waiting' = FALSE
  /\ flushing' = FALSE

\* The loop is over (index reached queue.length, or break): the state is reset.
\* No component is mounted or queued for activation here, so that
\* callActivatedHooks and callUpdatedHooks call no hook.
FlushEnd ==
  /\ ~exc /\ stack # << >> /\ Top.k = "flush"
  /\ Top.pc = "end" \/ (Top.pc = "loop" /\ index >= Len(queue))
  /\ resetSchedulerState
  /\ stack' = Pop(stack)
  /\ ev' = Ev("flushEnd", 0)
  /\ UNCHANGED << heapVars, compiler, lifecycle, seenObjects, subs, targetStack, uid, watchers, tickVars, exc, fuel,
                  flushLog >>

\* The constructor of a render watcher does vm._watcher = this.
isRenderWatcher(me) == ~me.user /\ ~me.sync /\ ~me.lazy

\* vm._isMounted = true at the end of mountComponent (the insert hook for a
\* child component); c is the component's render watcher.
mountComponent(c) ==
  /\ ~exc /\ AtTopLevel /\ c <= uid /\ isRenderWatcher(watchers[c])
  /\ ~lifecycle.isMounted[c] /\ ~lifecycle.isDestroyed[c]
  /\ lifecycle' = [lifecycle EXCEPT !.isMounted[c] = TRUE]
  /\ ev' = Ev("mounted", c)
  /\ UNCHANGED << heapVars, compiler, seenObjects, subs, targetStack, uid, watchers, schedVars, tickVars,
                  stack, exc, fuel, flushLog >>

\* vm.$destroy(): the render watcher is torn down and vm._isDestroyed = true.
destroy(c) ==
  /\ ~exc /\ AtTopLevel /\ c <= uid /\ isRenderWatcher(watchers[c])
  /\ ~lifecycle.isDestroyed[c]
  /\ LET st == teardown([w |-> watchers, s |-> subs], c)
     IN /\ watchers' = st.w
        /\ subs' = st.s
  /\ lifecycle' = [lifecycle EXCEPT !.isDestroyed[c] = TRUE]
  /\ ev' = Ev("destroy", c)
  /\ UNCHANGED << heapVars, compiler, seenObjects, targetStack, uid, schedVars, tickVars, stack, exc, fuel,
                  flushLog >>

\* queueActivatedComponent(vm), called by the patch of a render watcher that
\* the flush runs, for a kept-alive component it puts back.
queueActivatedComponent(c) ==
  /\ ~exc /\ InFlush /\ Top.k = "get" /\ Top.pc = "run"
  /\ isRenderWatcher(watchers[Top.w])
  /\ c <= uid /\ isRenderWatcher(watchers[c])
  /\ c \notin Range(lifecycle.activatedChildren)
  /\ lifecycle' = [lifecycle EXCEPT !.activatedChildren = Append(@, c)]
  /\ ev' = Ev("queueActivated", c)
  /\ UNCHANGED << heapVars, compiler, seenObjects, subs, targetStack, uid, watchers, schedVars, tickVars,
                  stack, exc, fuel, flushLog >>

\* The loop of flushSchedulerQueue is over: copies of the two queues are
\* kept and resetSchedulerState() is called.
FlushReset ==
  /\ ~exc /\ stack # << >> /\ Top.k = "flush"
  /\ Top.pc = "end" \/ (Top.pc = "loop" /\ index >= Len(queue))
  /\ resetSchedulerState
  /\ lifecycle' = [lifecycle EXCEPT !.activatedQueue = lifecycle.activatedChildren,
                                    !.updatedQueue = queue,
                                    !.activatedChildren = << >>,
                                    !.hooks = << >>]
  /\ stack' = SetTop(stack, [Top EXCEPT !.pc = "activated", !.i = 0])
  /\ ev' = Ev("flushReset", 0)
  /\ UNCHANGED << heapVars, compiler, seenObjects, subs, targetStack, uid, watchers, tickVars, exc, fuel,
                  flushLog >>

\* One round of the loop of callActivatedHooks(queue), up to the call of the
\* component's hook: activateChildComponent(queue[i], true) of a component
\* whose ancestors are active.  After the last round, callUpdatedHooks
\* starts at the end of its queue.
callActivatedHooks ==
  /\ ~exc /\ stack # << >> /\ Top.k = "flush" /\ Top.pc = "activated"
  /\ IF Top.i < Len(lifecycle.activatedQueue)
     THEN LET vm == lifecycle.activatedQueue[Top.i + 1]
          IN /\ lifecycle' = [lifecycle EXCEPT
                                !.hooks = Append(@, [hook |-> "activated", vm |-> vm])]
             /\ targetStack' = pushTarget(targetStack, 0)
             /\ stack' = Append(SetTop(stack, [Top EXCEPT !.i = @ + 1]),
                                Frame("hook", 0, ""))
             /\ ev' = Ev("activated", vm)
     ELSE /\ stack' = SetTop(stack, [Top EXCEPT !.pc = "updated",
                                                !.i = Len(lifecycle.updatedQueue)])
          /\ ev' = Ev("activatedDone", 0)
          /\ UNCHANGED << lifecycle, targetStack >>
  /\ UNCHANGED << heapVars, compiler, seenObjects, subs, uid, watchers, schedVars, tickVars, exc, fuel,
                  flushLog >>

\* A callUpdatedHooks that calls the hook for every entry of the queue.
callsUpdatedAlways(lc, ws, watcher) == TRUE

\* vm._watcher === watcher && vm._isMounted && !vm._isDestroyed
callsUpdated(lc, ws, watcher) ==
  isRenderWatcher(ws[watcher]) /\ lc.isMounted[watcher] /\ ~lc.isDestroyed[watcher]

\* One round of the loop of callUpdatedHooks(queue): while (i--), up to the
\* call of the component's hook.
callUpdatedHooks ==
  /\ ~exc /\ stack # << >> /\ Top.k = "flush" /\ Top.pc = "updated" /\ Top.i > 0
  /\ LET watcher == lifecycle.updatedQueue[Top.i]
         here == SetTop(stack, [Top EXCEPT !.i = @ - 1])
     IN IF callsUpdated(lifecycle, watchers, watcher)
        THEN /\ lifecycle' = [lifecycle EXCEPT
                                !.hooks = Append(@, [hook |-> "updated", vm |-> watcher])]
             /\ targetStack' = pushTarget(targetStack, 0)
             /\ stack' = Append(here, Frame("hook", 0, ""))
             /\ ev' = Ev("updated", watcher)
        ELSE /\ stack' = here
             /\ ev' = Ev("notUpdated", watcher)
             /\ UNCHANGED << lifecycle, targetStack >>
  /\ UNCHANGED << heapVars, compiler, seenObjects, subs, uid, watchers, schedVars, tickVars, exc, fuel,
                  flushLog >>

\* flushSchedulerQueue returns; its two copies go with it.
FlushReturn ==
  /\ ~exc /\ stack # << >> /\ Top.k = "flush" /\ Top.pc = "updated" /\ Top.i = 0
  /\ stack' = Pop(stack)
  /\ lifecycle' = [lifecycle EXCEPT !.activatedQueue = << >>, !.updatedQueue = << >>,
                                    !.hooks = << >>]
  /\ ev' = Ev("flushEnd", 0)
  /\ UNCHANGED << heapVars, compiler, seenObjects, subs, targetStack, uid, watchers, schedVars, tickVars,
                  exc, fuel, flushLog >>

\* handleError(e, vm, info) (core/util/error.js): the error is reported and
\* does not propagate further.
handleError(log, w) == IF InFlush THEN [log EXCEPT !.throwers = @ \cup {w}] ELSE log

\* Whether a frame of kind k, of a watcher with this.user = user, catches an
\* exception: Watcher.get's catch and run's invokeWithErrorHandling do for
\* user watchers, nextTick's wrapper always does.
catchesError(k, user) == (k \in {"get", "cb"} /\ user) \/ k = "tick"

\* An exception leaves the frame on top of the stack.
Unwind ==
  /\ exc
  /\ IF stack = << >>
     THEN \* it reaches the host: the synchronous block is over
          /\ exc' = FALSE
          /\ watchers' = BlockEnd(watchers)
          /\ ev' = Ev("uncaught", 0)
          /\ UNCHANGED << subs, targetStack, stack, flushLog >>
     ELSE LET caught == catchesError(Top.k, IF Top.k \in {"get", "cb"}
                                               THEN watchers[Top.w].user ELSE FALSE)
          IN
          CASE Top.k = "get" /\ caught ->
                 \* catch (e) { if (this.user) handleError(...) } finally { ... }
                 /\ exc' = FALSE
                 /\ flushLog' = handleError(flushLog, Top.w)
                 /\ FinishGet("undef", TRUE)
            [] Top.k = "get" /\ ~caught ->
                 \* else throw e, after the finally block
                 LET st == cleanupDeps([w |-> watchers, s |-> subs], Top.w)
                 IN /\ targetStack' = popTarget(targetStack)
                    /\ watchers' = st.w
                    /\ subs' = st.s
                    /\ stack' = Pop(stack)
                    /\ ev' = [Ev("getDone", Top.w) EXCEPT !.pc = Top.pc, !.reads = Top.reads,
                                 !.clean = Top.clean, !.threw = TRUE,
                                 !.v = watchers[Top.w].value, !.old = watchers[Top.w].value]
                    /\ UNCHANGED << exc, flushLog >>
            [] Top.k = "cb" /\ caught ->
                 \* invokeWithErrorHandling(this.cb, ...)
                 /\ exc' = FALSE
                 /\ flushLog' = handleError(flushLog, Top.w)
                 /\ stack' = Pop(stack)
                 /\ ev' = [Ev("cbDone", Top.w) EXCEPT !.threw = TRUE, !.handled = TRUE]
                 /\ UNCHANGED << subs, targetStack, watchers >>
            [] Top.k = "tick" /\ caught ->
                 \* nextTick's wrapper: try { cb.call(ctx) } catch (e) { handleError(...) }
                 /\ exc' = FALSE
                 /\ ev' = [Ev("caught", 0) EXCEPT !.handled = TRUE]
                 /\ UNCHANGED << subs, targetStack, watchers, stack, flushLog >>
            [] OTHER ->
                 \* no try/catch in Dep.notify, flushSchedulerQueue, or an
                 \* internal watcher's callback call
                 /\ stack' = Pop(stack)
                 /\ flushLog' = IF Top.k = "flush"
                                THEN [flushLog EXCEPT !.cut = "error", !.cutBy = Top.w]
                                ELSE flushLog
                 /\ ev' = [Ev("unwind", Top.w) EXCEPT !.threw = TRUE]
                 /\ UNCHANGED << exc, subs, targetStack, watchers >>
  /\ fuel' = Refuel(stack')
  /\ UNCHANGED << heapVars, compiler, lifecycle, seenObjects, uid, schedVars, tickVars >>

\* ------------------------------------------------ compiler: parseHTML
\* Everything but the compiler's variable.
runtimeVars == << heapVars, lifecycle, seenObjects, subs, targetStack, uid, watchers, schedVars, tickVars,
                 stack, exc, fuel, ev, flushLog >>

\* The template is the sequence of the pieces the scanner's regular expressions
\* match one at a time: start tags (with or without a closing slash), end
\* tags, comments, and runs of text without '<'.  Tag names are lower case.
Token(t, tag, slash) == [t |-> t, tag |-> tag, slash |-> slash]
Tokens ==
  { Token("open", tag, FALSE) : tag \in {"div", "p", "script", "br"} }
    \cup { Token("open", "div", TRUE) }
    \cup { Token("close", tag, FALSE) : tag \in {"div", "p", "script", "br"} }
    \cup { Token("text", "", FALSE), Token("comment", "", FALSE) }

\* Templates of up to max pieces: two runs of text are never adjacent.
Templates(max) ==
  { html \in UNION { [1..n -> Tokens] : n \in 0..max } :
      \A j \in 1..(Len(html) - 1) : ~(html[j].t = "text" /\ html[j + 1].t = "text") }

\* Templates with pieces no tag or comment is made of: "lt", a '<' that
\* begins none, with the text after it; "opencomment", '<!--' with no '-->'
\* in the rest of the template, with the text after it; "partial", a start
\* tag that lacks its '>' and is followed by '<' or by the end.
MalformedTokens ==
  { Token("open", tag, FALSE) : tag \in {"div", "script"} }
    \cup { Token("close", tag, FALSE) : tag \in {"div", "script"} }
    \cup { Token(t, "", FALSE) : t \in {"text", "comment", "lt", "opencomment"} }
    \cup { Token("partial", "div", FALSE) }

MalformedTemplates(max) ==
  { html \in UNION { [1..n -> MalformedTokens] : n \in 0..max } :
      /\ \A j \in 1..(Len(html) - 1) :
            /\ html[j + 1].t = "text" => html[j].t \notin {"text", "lt", "opencomment"}
            /\ html[j].t = "partial" => html[j + 1].t # "text"
      /\ \A j, k \in 1..Len(html) :
            (html[j].t = "opencomment" /\ j < k) => html[k].t # "comment" }

\* The options of the web platform, and its isNonPhrasingTag.
options ==
  [expectHTML |-> TRUE, isUnaryTag |-> {"br"}, canBeLeftOpenTag |-> {"p"},
   shouldKeepComment |-> FALSE,
   isReservedTag |-> {"div", "template"}, staticKeys |-> {"staticClass", "staticStyle"}]
isNonPhrasingTag(tag) == tag = "div"
isPlainTextElement(tag) == tag = "script"

\* An event handed to options.start, options.end or options.chars, and a
\* diagnostic handed to options.warn.
Event(e, tag, unary, text) == [e |-> e, tag |-> tag, unary |-> unary, text |-> text]

\* A parseEndTag that closes the element the end tag names and forgets the
\* elements opened inside it.
parseEndTagMatchOnly(c, tagName, by) ==
  LET found == { i \in 1..Len(c.stack) : c.stack[i] = tagName }
      pos == IF found = {} THEN 0 ELSE CHOOSE i \in found : \A j \in found : j <= i
  IN IF tagName = ""
     THEN [c EXCEPT !.events = @ \o [j \in 1..Len(c.stack) |->
                                        Event("end", c.stack[Len(c.stack) + 1 - j], FALSE, << >>)],
                    !.stack = << >>, !.lastTag = ""]
     ELSE IF pos >= 1
     THEN [c EXCEPT !.events = Append(@, Event("end", c.stack[pos], FALSE, << >>)),
                    !.stack = SubSeq(@, 1, pos - 1),
                    !.lastTag = IF pos - 1 >= 1 THEN c.stack[pos - 1] ELSE ""]
     ELSE c

\* parseEndTag(tagName) on the scanner's variables c; tagName = "" for the call
\* without arguments.  by: "tag" when the call consumed an end tag of the
\* template, "auto" when a start tag closes its predecessor, "eof" when the
\* template has no end tag left for the element.
\* pos is the source's pos + 1; lastTag = "" stands for a falsy lastTag.
\* forced (history) counts the close events given to elements that were still
\* open at the end of the template or beneath the element an end tag closed.
parseEndTag(c, tagName, by) ==
  LET found == { i \in 1..Len(c.stack) : c.stack[i] = tagName }
      pos == IF tagName = "" THEN 1
             ELSE IF found = {} THEN 0
             ELSE CHOOSE i \in found : \A j \in found : j <= i
      n == Len(c.stack) - pos + 1
      \* for (let i = stack.length - 1; i >= pos; i--)
      at(j) == c.stack[Len(c.stack) + 1 - j]
      ends == [j \in 1..n |-> Event("end", at(j), FALSE, << >>)]
      nowarn == IF tagName = "" THEN 0 ELSE 1
      warns == [j \in 1..(n - nowarn) |-> Event("no matching end tag", at(j), FALSE, << >>)]
  IN IF pos >= 1
     THEN [c EXCEPT !.events = @ \o ends,
                    !.warns = @ \o warns,
                    !.forced = CASE by = "tag" -> @ + n - 1
                                [] by = "eof" -> @ + n
                                [] OTHER -> @,
                    !.stack = SubSeq(@, 1, pos - 1),
                    !.lastTag = IF pos - 1 >= 1 THEN c.stack[pos - 1] ELSE ""]
     ELSE IF tagName = "br"
     THEN [c EXCEPT !.events = Append(@, Event("start", tagName, TRUE, << >>))]
     ELSE IF tagName = "p"
     THEN [c EXCEPT !.events = @ \o << Event("start", tagName, FALSE, << >>),
                                       Event("end", tagName, FALSE, << >>) >>]
     ELSE c

RECURSIVE elementStack(_)
\* The stack of parse after the events: its start handler pushes the element
\* of a tag that is not unary, its end handler drops the last element
\* whatever the tag (stack.length -= 1); an element is the number of its
\* start event.
elementStack(events) ==
  IF events = << >> THEN << >>
  ELSE LET n == Len(events)
           before == elementStack(SubSeq(events, 1, n - 1))
       IN CASE events[n].e = "start" /\ ~events[n].unary -> Append(before, n)
            [] events[n].e = "end" /\ before # << >> -> Pop(before)
            [] OTHER -> before

\* handleStartTag(match) on the scanner's variables c.
handleStartTag(c, tagName, unarySlash) ==
  LET c1 == IF options.expectHTML /\ c.lastTag = "p" /\ isNonPhrasingTag(tagName)
            THEN parseEndTag(c, c.lastTag, "auto") ELSE c
      c2 == IF options.expectHTML /\ tagName \in options.canBeLeftOpenTag
                                  /\ c1.lastTag = tagName
            THEN parseEndTag(c1, tagName, "auto") ELSE c1
      unary == tagName \in options.isUnaryTag \/ unarySlash
      c3 == IF ~unary THEN [c2 EXCEPT !.stack = Append(@, tagName), !.lastTag = tagName]
            ELSE c2
  IN [c3 EXCEPT !.events = Append(@, Event("start", tagName, unary, << >>))]

\* advance(n): n pieces of the template are consumed.
advance(html, n) == SubSeq(html, n + 1, Len(html))

\* A loop that never finds the template as the turn began with it.
neverSameAsLast(html, last) == FALSE

\* html === last
sameAsLast(html, last) == html = last

\* endTag.test(rest) || startTagOpen.test(rest) || comment.test(rest) ||
\* conditionalComment.test(rest), for rest beginning with the piece tok.
startsTag(tok) == tok.t \in {"open", "close", "comment", "opencomment", "partial"}

\* The text at the head of html: textEnd is moved from '<' to '<' while no
\* tag or comment begins there, and stays at the last '<' when the template
\* ends first; all of html when it holds no '<'.
textEnd(html) ==
  LET stops == { j \in 1..Len(html) : startsTag(html[j]) }
  IN IF stops # {} THEN (CHOOSE j \in stops : \A k \in stops : j <= k) - 1
     ELSE IF html[Len(html)].t = "lt" THEN Len(html) - 1
     ELSE Len(html)

\* One turn of parseHTML's while (html) loop.
parseHTMLLoop ==
  /\ compiler.fn = "parseHTML" /\ ~compiler.done /\ ~compiler.broke
  /\ compiler.html # << >>
  /\ LET c == compiler
         last == c.html
         head == c.html[1]
         advanced == [c EXCEPT !.html = advance(@, 1)]
         \* if (html === last) { options.chars(html); warn; break }
         check(c1) ==
           IF sameAsLast(c1.html, last)
           THEN [c1 EXCEPT
                   !.events = Append(@, Event("chars", "", FALSE, c1.html)),
                   !.warns = IF c1.stack = << >>
                             THEN Append(@, Event("Mal-formatted tag", "", FALSE, c1.html))
                             ELSE @,
                   !.broke = TRUE]
           ELSE c1
     IN compiler' =
          IF c.lastTag = "" \/ ~isPlainTextElement(c.lastTag)
          THEN CASE head.t = "comment" -> advanced
                 [] head.t = "close" -> parseEndTag(advanced, head.tag, "tag")
                 [] head.t = "open" -> handleStartTag(advanced, head.tag, head.slash)
                 \* parseStartTag finds no end of the tag and returns nothing
                 [] head.t = "partial" -> check(advanced)
                 [] OTHER ->
                      LET n == textEnd(c.html)
                          text == SubSeq(c.html, 1, n)
                      IN check(IF text # << >>
                               THEN [c EXCEPT !.html = advance(@, n),
                                              !.events = Append(@, Event("chars", "", FALSE,
                                                                         text))]
                               ELSE c)
          ELSE \* html.replace(reStackedTag, ...): up to the first end tag of lastTag
               LET stackedTag == c.lastTag
                   ends == { j \in 1..Len(c.html) :
                               c.html[j].t = "close" /\ c.html[j].tag = stackedTag }
               IN IF ends # {}
                  THEN LET j == CHOOSE i \in ends : \A k \in ends : i <= k
                           text == SubSeq(c.html, 1, j - 1)
                       IN check(parseEndTag(
                            [c EXCEPT !.events = Append(@, Event("chars", "", FALSE, text)),
                                      !.html = advance(@, j)],
                            stackedTag, "tag"))
                  ELSE \* no end tag: rest = html
                       check(parseEndTag(c, stackedTag, "eof"))
  /\ UNCHANGED runtimeVars

\* The loop is over: parseEndTag() cleans up the remaining tags.
parseHTMLEnd ==
  /\ compiler.fn = "parseHTML" /\ ~compiler.done
  /\ compiler.html = << >> \/ compiler.broke
  /\ compiler' = [parseEndTag(compiler, "", "eof") EXCEPT !.done = TRUE]
  /\ UNCHANGED runtimeVars

\* -------------------------------------------- compiler: parseFilters
\* A string is the sequence of its characters; "backtick" is the character
\* 0x60.
Chars == {"f", " ", "|", "'", "\\", "(", ")", "/"}
Expressions(max) == UNION { [1..n -> Chars] : n \in 0..max }

\* The value of an unassigned variable (no string has it).
undefined == << "undefined" >>

\* String.prototype.trim
RECURSIVE trim(_)
trim(s) ==
  IF s # << >> /\ s[1] = " " THEN trim(Tail(s))
  ELSE IF s # << >> /\ s[Len(s)] = " " THEN trim(SubSeq(s, 1, Len(s) - 1))
  ELSE s

\* wrapFilter(exp, filter)
wrapFilter(exp, filter) ==
  LET at == { j \in 1..Len(filter) : filter[j] = "(" }
      prefix == << "_", "f", "(", "\"" >>
      call == << "\"", ")", "(" >>
  IN IF at = {}
     THEN prefix \o filter \o call \o exp \o << ")" >>
     ELSE LET i == CHOOSE j \in at : \A k \in at : j <= k
              name == SubSeq(filter, 1, i - 1)
              args == SubSeq(filter, i + 1, Len(filter))
          IN prefix \o name \o call \o exp
               \o (IF args # << ")" >> THEN << "," >> \o args ELSE args)

\* parseFilters(exp); i is the source's i + 1, lastFilterIndex the source's.
parseFilters(exp) ==
  LET charAt(j) == IF j \in 1..Len(exp) THEN exp[j] ELSE ""
      \* exp.slice(lastFilterIndex, i).trim() pushed on filters
      pushFilter(s, i) ==
        [s EXCEPT !.filters = Append(@, trim(SubSeq(exp, s.lastFilterIndex + 1, i - 1))),
                  !.lastFilterIndex = i]
      \* validDivisionCharRE = /[\w).+\-_$\]]/
      validDivisionChar(p) == p \in {"f", "_", "$", ")", ".", "+", "-", "]"}
      \* the first non-whitespace character before i, exp.charAt(0) when there
      \* is none, and nothing at i = 0
      RECURSIVE before(_)
      before(j) == IF j < 1 THEN ""
                   ELSE IF exp[j] # " " \/ j = 1 THEN exp[j]
                   ELSE before(j - 1)
      step(s, i) ==
        LET prev == s.c
            c == exp[i]
            s1 == [s EXCEPT !.c = c]
        IN IF s.inSingle
           THEN IF c = "'" /\ prev # "\\" THEN [s1 EXCEPT !.inSingle = FALSE] ELSE s1
           ELSE IF s.inDouble
           THEN IF c = "\"" /\ prev # "\\" THEN [s1 EXCEPT !.inDouble = FALSE] ELSE s1
           ELSE IF s.inTemplateString
           THEN IF c = "backtick" /\ prev # "\\" THEN [s1 EXCEPT !.inTemplateString = FALSE]
                ELSE s1
           ELSE IF s.inRegex
           THEN IF c = "/" /\ prev # "\\" THEN [s1 EXCEPT !.inRegex = FALSE] ELSE s1
           ELSE IF /\ c = "|"
                   /\ charAt(i + 1) # "|"
                   /\ charAt(i - 1) # "|"
                   /\ s.curly = 0 /\ s.square = 0 /\ s.paren = 0
           THEN IF s.expression = undefined
                THEN [s1 EXCEPT !.lastFilterIndex = i,
                                !.expression = trim(SubSeq(exp, 1, i - 1))]
                ELSE pushFilter(s1, i)
           ELSE LET s2 == CASE c = "\"" -> [s1 EXCEPT !.inDouble = TRUE]
                            [] c = "'" -> [s1 EXCEPT !.inSingle = TRUE]
                            [] c = "backtick" -> [s1 EXCEPT !.inTemplateString = TRUE]
                            [] c = "(" -> [s1 EXCEPT !.paren = @ + 1]
                            [] c = ")" -> [s1 EXCEPT !.paren = @ - 1]
                            [] c = "[" -> [s1 EXCEPT !.square = @ + 1]
                            [] c = "]" -> [s1 EXCEPT !.square = @ - 1]
                            [] c = "{" -> [s1 EXCEPT !.curly = @ + 1]
                            [] c = "}" -> [s1 EXCEPT !.curly = @ - 1]
                            [] OTHER -> s1
                IN IF c = "/" /\ ~validDivisionChar(before(i - 1))
                   THEN [s2 EXCEPT !.inRegex = TRUE] ELSE s2
      RECURSIVE loop(_, _)
      loop(s, i) == IF i > Len(exp) THEN s ELSE loop(step(s, i), i + 1)
      s0 == [inSingle |-> FALSE, inDouble |-> FALSE, inTemplateString |-> FALSE,
             inRegex |-> FALSE, curly |-> 0, square |-> 0, paren |-> 0,
             lastFilterIndex |-> 0, c |-> "", expression |-> undefined,
             filters |-> << >>]
      s3 == loop(s0, 1)
      s4 == IF s3.expression = undefined
            THEN [s3 EXCEPT !.expression = trim(exp)]
            ELSE IF s3.lastFilterIndex # 0 THEN pushFilter(s3, Len(exp) + 1)
            ELSE s3
      RECURSIVE wrap(_, _)
      wrap(expression, i) ==
        IF i > Len(s4.filters) THEN expression
        ELSE wrap(wrapFilter(expression, s4.filters[i]), i + 1)
  IN wrap(s4.expression, 1)

\* A call of parseFilters.
callParseFilters ==
  /\ compiler.fn = "parseFilters" /\ ~compiler.done
  /\ compiler' = [compiler EXCEPT !.result = parseFilters(compiler.exp), !.done = TRUE]
  /\ UNCHANGED runtimeVars

\* ----------------------------------------------- compiler: parseText
\* Texts are put together from these pieces.
Pieces == { << "f" >>, << " " >>, << "\"" >>, << "|" >>, << "{" >>, << "}" >>,
            << "{", "{" >>, << "}", "}" >> }
RECURSIVE Flatten(_)
Flatten(ps) == IF ps = << >> THEN << >> ELSE ps[1] \o Flatten(Tail(ps))
Texts(max) == { Flatten(ps) : ps \in UNION { [1..n -> Pieces] : n \in 0..max } }

\* JSON.stringify of a string
RECURSIVE JSONEscape(_)
JSONEscape(s) ==
  IF s = << >> THEN << >>
  ELSE (IF s[1] \in {"\"", "\\"} THEN << "\\", s[1] >> ELSE << s[1] >>)
         \o JSONEscape(Tail(s))
SingleQuoted(value) == << "'" >> \o value \o << "'" >>
JSONstringify(value) == << "\"" >> \o JSONEscape(value) \o << "\"" >>

\* defaultTagRE.exec(text) with tagRE.lastIndex = lastIndex (source index):
\* the leftmost '{{', then the first '}}' with at least one character between.
\* index and end are source indices; found = FALSE for null.
tagREexec(text, lastIndex) ==
  LET is(j, c) == j + 1 <= Len(text) /\ text[j] = c /\ text[j + 1] = c
      closes(i) == { j \in (i + 3)..Len(text) : is(j, "}") }
      opens == { i \in (lastIndex + 1)..Len(text) : is(i, "{") /\ closes(i) # {} }
  IN IF opens = {} THEN [found |-> FALSE, index |-> 0, end |-> 0, group |-> << >>]
     ELSE LET i == CHOOSE k \in opens : \A m \in opens : k <= m
              j == CHOOSE k \in closes(i) : \A m \in closes(i) : k <= m
          IN [found |-> TRUE, index |-> i - 1, end |-> j + 1,
              group |-> SubSeq(text, i + 2, j - 1)]

\* parseText(text) with the default delimiters.  A raw token {'@binding': exp}
\* is [binding |-> TRUE, value |-> exp]; no result is defined = FALSE.
parseText(text) ==
  LET join(tokens) ==
        LET RECURSIVE j(_)
            j(k) == IF k > Len(tokens) THEN << >>
                    ELSE (IF k > 1 THEN << "+" >> ELSE << >>) \o tokens[k] \o j(k + 1)
        IN j(1)
      RECURSIVE loop(_)
      loop(s) ==
        LET match == tagREexec(text, s.lastIndex)
        IN IF ~match.found THEN s
           ELSE LET tokenValue == SubSeq(text, s.lastIndex + 1, match.index)
                    s1 == IF match.index > s.lastIndex
                          THEN [s EXCEPT
                                  !.rawTokens = Append(@, [binding |-> FALSE,
                                                           value |-> tokenValue]),
                                  !.tokens = Append(@, JSONstringify(tokenValue))]
                          ELSE s
                    exp == parseFilters(trim(match.group))
                IN loop([s1 EXCEPT
                           !.tokens = Append(@, << "_", "s", "(" >> \o exp \o << ")" >>),
                           !.rawTokens = Append(@, [binding |-> TRUE, value |-> exp]),
                           !.lastIndex = match.end])
      s2 == loop([tokens |-> << >>, rawTokens |-> << >>, lastIndex |-> 0])
      tokenValue == SubSeq(text, s2.lastIndex + 1, Len(text))
      s3 == IF s2.lastIndex < Len(text)
            THEN [s2 EXCEPT
                    !.rawTokens = Append(@, [binding |-> FALSE, value |-> tokenValue]),
                    !.tokens = Append(@, JSONstringify(tokenValue))]
            ELSE s2
  IN IF ~tagREexec(text, 0).found
     THEN [defined |-> FALSE, expression |-> << >>, tokens |-> << >>]
     ELSE [defined |-> TRUE, expression |-> join(s3.tokens), tokens |-> s3.rawTokens]

\* A call of parseText.
callParseText ==
  /\ compiler.fn = "parseText" /\ ~compiler.done
  /\ compiler' = [compiler EXCEPT !.result = parseText(compiler.text), !.done = TRUE]
  /\ UNCHANGED runtimeVars

\* ------------------------------------------------- compiler: optimize
\* An AST node as the parser leaves it: keys are its own property names
\* (Object.keys(node)), attrsMap the names of its attributes; parent = 0 for
\* no parent; static, staticRoot and staticInFor read FALSE (undefined) until
\* the optimizer assigns them and adds the key.
ASTNode(type, tag, keys, attrsMap) ==
  [type |-> type, tag |-> tag, keys |-> keys, attrsMap |-> attrsMap,
   parent |-> 0, children |-> << >>, ifConditions |-> << >>,
   static |-> FALSE, staticRoot |-> FALSE, staticInFor |-> FALSE]
ASTElement(tag, keys, attrsMap) ==
  ASTNode(1, tag,
          {"type", "tag", "attrsList", "attrsMap", "rawAttrsMap", "parent", "children"}
            \cup keys,
          attrsMap)

\* An element that is the block of a v-else.
ElseBlock == ASTElement("div", {"else"}, {"v-else"})

\* The nodes the trees are built from: elements with literal attributes, with
\* v-for, v-if, both, a directive, v-once, v-pre; templates; components;
\* a slot; a text and an expression.
ASTNodes ==
  { ASTElement("div", {"attrs", "staticClass"}, {"id", "class"}),
    ASTElement("div", {"for", "alias"}, {"v-for"}),
    ASTElement("div", {"if", "ifConditions"}, {"v-if"}),
    ASTElement("div", {"for", "alias", "if", "ifConditions"}, {"v-for", "v-if"}),
    ASTElement("div", {"hasBindings", "directives"}, {"v-show"}),
    ASTElement("div", {"once"}, {"v-once"}),
    ASTElement("div", {"pre", "attrs"}, {"v-pre"}),
    ASTElement("template", {"for", "alias"}, {"v-for"}),
    ASTElement("template", {"plain"}, {}),
    ASTElement("comp", {"plain"}, {}),
    ASTElement("comp", {"inlineTemplate"}, {"inline-template"}),
    ASTElement("slot", {"slotName"}, {"name"}),
    ElseBlock,
    ASTNode(3, "", {"type", "text"}, {}),
    ASTNode(2, "", {"type", "expression", "tokens", "text"}, {}) }

\* The tree of n nodes in which node i > 1 hangs under up[i]: as a block of
\* its ifConditions when it is a v-else block, as a child otherwise.
AST(n, up, kind) ==
  LET RECURSIVE below(_, _, _)
      below(i, j, else) ==
        IF j > n THEN << >>
        ELSE (IF up[j] = i /\ (kind[j] = ElseBlock) = else THEN << j >> ELSE << >>)
               \o below(i, j + 1, else)
  IN [i \in 1..n |->
        [kind[i] EXCEPT
           !.parent = IF i = 1 THEN 0
                      ELSE IF kind[i] = ElseBlock THEN (IF up[i] = 1 THEN 0 ELSE up[up[i]])
                      ELSE up[i],
           !.children = below(i, 2, FALSE),
           !.ifConditions = IF "if" \in kind[i].keys THEN << i >> \o below(i, 2, TRUE)
                            ELSE << >>]]

\* The trees the parser builds: the root is an element; only elements have
\* children; a v-else block belongs to a v-if element; inside v-pre nothing
\* is compiled.
ASTs(max) ==
  UNION { { AST(n, up, kind) :
              <<up, kind>> \in
                { uk \in [1..n -> 0..(n - 1)] \X [1..n -> ASTNodes] :
                    LET up == uk[1]
                        kind == uk[2]
                        RECURSIVE inPre(_)
                        inPre(i) == i > 1 /\ ("pre" \in kind[up[i]].keys \/ inPre(up[i]))
                    IN /\ kind[1].type = 1 /\ kind[1] # ElseBlock /\ up[1] = 0
                       /\ \A i \in 2..n :
                            /\ up[i] \in 1..(i - 1)
                            /\ kind[up[i]].type = 1
                            /\ kind[i] = ElseBlock => "if" \in kind[up[i]].keys
                            /\ inPre(i) =>
                                  kind[i] \in { k \in ASTNodes :
                                                  k.keys \cap {"for", "if", "else", "pre",
                                                               "hasBindings", "once"} = {} } } }
          : n \in 1..max }

\* isBuiltInTag = makeMap('slot,component', true)
isBuiltInTag(tag) == tag \in {"slot", "component"}

\* isPlatformReservedTag = options.isReservedTag || no
isPlatformReservedTag(tag) == tag \in options.isReservedTag

\* The static keys without the options' staticKeys.
isStaticKeyOfNoModule(key) ==
  key \in {"type", "tag", "attrsList", "attrsMap", "plain", "parent", "children",
           "attrs", "start", "end", "rawAttrsMap"}

\* isStaticKey = genStaticKeysCached(options.staticKeys || '')
isStaticKey(key) ==
  key \in {"type", "tag", "attrsList", "attrsMap", "plain", "parent", "children",
           "attrs", "start", "end", "rawAttrsMap"} \cup options.staticKeys

\* isDirectChildOfTemplateFor(node)
RECURSIVE isDirectChildOfTemplateFor(_, _)
isDirectChildOfTemplateFor(ast, node) ==
  IF ast[node].parent = 0 THEN FALSE
  ELSE LET p == ast[node].parent
       IN IF ast[p].tag # "template" THEN FALSE
          ELSE IF "for" \in ast[p].keys THEN TRUE
          ELSE isDirectChildOfTemplateFor(ast, p)

\* isStatic without the test of node.for.
isStaticInLoops(ast, node) ==
  LET n == ast[node]
  IN IF n.type = 2 THEN FALSE
     ELSE IF n.type = 3 THEN TRUE
     ELSE \/ "pre" \in n.keys
          \/ /\ "hasBindings" \notin n.keys
             /\ "if" \notin n.keys
             /\ ~isBuiltInTag(n.tag)
             /\ isPlatformReservedTag(n.tag)
             /\ ~isDirectChildOfTemplateFor(ast, node)
             /\ \A key \in n.keys \ {"for", "alias"} : isStaticKey(key)

\* isStatic(node)
isStatic(ast, node) ==
  LET n == ast[node]
  IN IF n.type = 2 THEN FALSE
     ELSE IF n.type = 3 THEN TRUE
     ELSE \/ "pre" \in n.keys
          \/ /\ "hasBindings" \notin n.keys
             /\ "if" \notin n.keys /\ "for" \notin n.keys
             /\ ~isBuiltInTag(n.tag)
             /\ isPlatformReservedTag(n.tag)
             /\ ~isDirectChildOfTemplateFor(ast, node)
             /\ \A key \in n.keys : isStaticKey(key)

\* markStatic(node): the tree after the call.
RECURSIVE markStatic(_, _)
markStatic(ast, node) ==
  LET a1 == [ast EXCEPT ![node].static = isStatic(ast, node),
                        ![node].keys = @ \cup {"static"}]
      \* markStatic(block); if (!block.static) node.static = false
      RECURSIVE each(_, _, _)
      each(a, blocks, i) ==
        IF i > Len(blocks) THEN a
        ELSE LET a2 == markStatic(a, blocks[i])
             IN each(IF ~a2[blocks[i]].static THEN [a2 EXCEPT ![node].static = FALSE]
                     ELSE a2,
                     blocks, i + 1)
  IN IF ast[node].type = 1
     THEN IF /\ ~isPlatformReservedTag(ast[node].tag)
             /\ ast[node].tag # "slot"
             /\ "inline-template" \notin ast[node].attrsMap
          THEN a1
          ELSE each(each(a1, ast[node].children, 1), ast[node].ifConditions, 2)
     ELSE a1

\* markStaticRoots(node, isInFor): the tree after the call.
RECURSIVE markStaticRoots(_, _, _)
markStaticRoots(ast, node, isInFor) ==
  LET n == ast[node]
      a1 == IF n.static \/ "once" \in n.keys
            THEN [ast EXCEPT ![node].staticInFor = isInFor,
                             ![node].keys = @ \cup {"staticInFor"}]
            ELSE ast
      root == /\ n.static
              /\ Len(n.children) # 0
              /\ ~(Len(n.children) = 1 /\ ast[n.children[1]].type = 3)
      a2 == [a1 EXCEPT ![node].staticRoot = root, ![node].keys = @ \cup {"staticRoot"}]
      RECURSIVE each(_, _, _, _)
      each(a, blocks, i, inFor) ==
        IF i > Len(blocks) THEN a
        ELSE each(markStaticRoots(a, blocks[i], inFor), blocks, i + 1, inFor)
  IN IF n.type # 1 THEN ast
     ELSE IF root THEN a2
     ELSE each(each(a2, n.children, 1, isInFor \/ "for" \in n.keys),
               n.ifConditions, 2, isInFor)

\* optimize(root, options), first pass: mark all non-static nodes.
optimizeMarkStatic ==
  /\ compiler.fn = "optimize" /\ compiler.pc = "optimize"
  /\ compiler' = IF compiler.root = 0 THEN [compiler EXCEPT !.pc = "done"]
                 ELSE [compiler EXCEPT !.ast = markStatic(@, compiler.root),
                                       !.pc = "markStaticRoots"]
  /\ UNCHANGED runtimeVars

\* optimize(root, options), second pass: mark static roots.
optimizeMarkStaticRoots ==
  /\ compiler.fn = "optimize" /\ compiler.pc = "markStaticRoots"
  /\ compiler' = [compiler EXCEPT !.ast = markStaticRoots(@, compiler.root, FALSE),
                                  !.pc = "done"]
  /\ UNCHANGED runtimeVars

\* -------------------------------------- compiler: compileToFunctions
\* The template texts and the delimiters options.delimiters may hold (<< >>
\* when the option is absent).
TemplateTexts == { << "x" >>, << "y" >>, << "[", ",", "]", "x" >> }
DelimiterOptions == { << >>, << << "[" >>, << "]" >> >> }

\* key = options.delimiters ? String(options.delimiters) + template : template
cacheKey(template, delimiters) ==
  IF delimiters # << >>
  THEN delimiters[1] \o << "," >> \o delimiters[2] \o template
  ELSE template

\* compileToFunctions without the cache: compiles and stores each time.
compileToFunctionsAnew(c, template, delimiters) ==
  LET key == cacheKey(template, delimiters)
      res == c.compiles + 1
  IN [c EXCEPT !.compiles = res,
               !.objects = Append(@, [template |-> template, delimiters |-> delimiters]),
               !.cache = [k \in DOMAIN @ \cup {key} |-> IF k = key THEN res ELSE @[k]],
               !.result = res]

\* compileToFunctions(template, options) on the closure's state c: cache maps
\* the keys to the result objects, objects[res] is what the object res was
\* compiled from (compile(template, options), turned into functions),
\* compiles counts the calls of compile, result is the object returned.
compileToFunctionsCall(c, template, delimiters) ==
  LET key == cacheKey(template, delimiters)
      res == c.compiles + 1
  IN IF key \in DOMAIN c.cache
     THEN [c EXCEPT !.result = c.cache[key]]
     ELSE [c EXCEPT !.compiles = res,
                    !.objects = Append(@, [template |-> template,
                                           delimiters |-> delimiters]),
                    !.cache = [k \in DOMAIN @ \cup {key} |-> IF k = key THEN res ELSE @[k]],
                    !.result = res]

\* A call of compileToFunctions; returned (history) keeps what each template
\* and delimiters got, again whether this call repeats an earlier one.
compileToFunctions(template, delimiters) ==
  /\ compiler.fn = "compileToFunctions"
  /\ LET c == compileToFunctionsCall(compiler, template, delimiters)
         input == << template, delimiters >>
     IN compiler' =
          [c EXCEPT !.template = template, !.delimiters = delimiters,
                    !.again = input \in DOMAIN compiler.returned,
                    !.returned = [i \in DOMAIN @ \cup {input} |->
                                    IF i = input THEN c.result ELSE @[i]]]
  /\ UNCHANGED runtimeVars

\* ---------------------------------------------------- compiler: parse
\* What parseHTML hands to parse's handlers: start(tag, attrs, unary), end and
\* chars(text), attrs being the names of the attributes; tag = "" for end and
\* chars.
ParseEvent(e, tag, attrs, unary, text) ==
  [e |-> e, tag |-> tag, attrs |-> attrs, unary |-> unary, text |-> text]
ParseEvents ==
  { ParseEvent("start", "div", attrs, TRUE, "") :
      attrs \in {{}, {"v-if"}, {"v-else"}, {"v-else-if"}, {"v-for"}} }
    \cup { ParseEvent("start", "div", attrs, FALSE, "") :
             attrs \in {{}, {"v-if"}, {"v-else"}} }
    \cup { ParseEvent("start", "template", {}, TRUE, ""),
           ParseEvent("end", "", {}, FALSE, ""),
           ParseEvent("chars", "", {}, FALSE, "t"),
           ParseEvent("chars", "", {}, FALSE, " ") }

\* Events of elements with and without the markers of a conditional, a
\* forbidden tag among them.
BranchEvents ==
  { ParseEvent("start", "div", attrs, TRUE, "") :
      attrs \in {{}, {"v-if"}, {"v-else"}, {"v-else-if"}} }
    \cup { ParseEvent("start", "style", attrs, TRUE, "") : attrs \in {{}, {"v-else"}} }
    \cup { ParseEvent("start", "div", {}, FALSE, ""),
           ParseEvent("end", "", {}, FALSE, ""),
           ParseEvent("chars", "", {}, FALSE, "t") }

\* The event sequences of up to max events parseHTML can produce: every end
\* closes an open element, and every element is closed at the end.
EventSequencesOf(events, max) ==
  LET RECURSIVE open(_, _)
      open(es, j) ==
        IF j = 0 THEN 0
        ELSE open(es, j - 1)
               + (IF es[j].e = "start" /\ ~es[j].unary THEN 1 ELSE 0)
               - (IF es[j].e = "end" THEN 1 ELSE 0)
  IN { es \in UNION { [1..n -> events] : n \in 0..max } :
         /\ \A j \in 1..Len(es) : open(es, j) >= 0
         /\ open(es, Len(es)) = 0
         /\ \A j \in 1..(Len(es) - 1) : ~(es[j].e = "chars" /\ es[j + 1].e = "chars") }

EventSequences(max) == EventSequencesOf(ParseEvents, max)

\* A parser that forbids no tag.
forbidsNoTag(tag) == FALSE

\* isForbiddenTag(el) && !isServerRendering(), script tags apart
isForbiddenTag(tag) == tag = "style"

\* A child of an element: an element (type 1, el its index in els) or a text
\* (type 3).
ASTChild(type, el, text) == [type |-> type, el |-> el, text |-> text]

\* warn(msg), and warnOnce(msg)
warn(c, msg) == [c EXCEPT !.warns = Append(@, msg)]
warnOnce(c, msg) == IF ~c.warned THEN warn([c EXCEPT !.warned = TRUE], msg) ELSE c

\* checkRootConstraints(el)
checkRootConstraints(c, el) ==
  LET c1 == IF c.els[el].tag \in {"slot", "template"}
            THEN warnOnce(c, "Cannot use tag as component root element") ELSE c
  IN IF "v-for" \in c.els[el].attrsMap
     THEN warnOnce(c1, "Cannot use v-for on stateful component root element") ELSE c1

\* trimEndingWhitespace(el), inPre being false
RECURSIVE trimEndingWhitespace(_, _)
trimEndingWhitespace(c, el) ==
  LET children == c.els[el].children
      n == Len(children)
  IN IF n > 0 /\ children[n].type = 3 /\ children[n].text = " "
     THEN trimEndingWhitespace([c EXCEPT !.els[el].children = SubSeq(@, 1, n - 1)], el)
     ELSE c

\* processIfConditions(el, parent), with findPrevElement(parent.children)
RECURSIVE processIfConditions(_, _, _)
processIfConditions(c, el, parent) ==
  LET children == c.els[parent].children
      n == Len(children)
  IN IF n = 0
     THEN warn(c, "v-else used on element without corresponding v-if")
     ELSE IF children[n].type = 1
     THEN IF c.els[children[n].el].if
          THEN [c EXCEPT !.els[children[n].el].ifConditions = Append(@, el)]
          ELSE warn(c, "v-else used on element without corresponding v-if")
     ELSE processIfConditions(
            [(IF children[n].text # " "
              THEN warn(c, "text between v-if and v-else(-if) will be ignored")
              ELSE c)
               EXCEPT !.els[parent].children = SubSeq(@, 1, n - 1)],
            el, parent)

\* closeElement taking every v-else(-if) element for a branch of the root.
closeElementAnyRoot(c, element) ==
  LET c1 == trimEndingWhitespace(c, element)
      el == c1.els[element]
      c2 == IF c1.stack = << >> /\ element # c1.root
            THEN IF el.elseif \/ el.else
                 THEN [checkRootConstraints(c1, element)
                         EXCEPT !.els[c1.root].ifConditions = Append(@, element)]
                 ELSE warnOnce(c1, "Component template should contain exactly one root element")
            ELSE c1
      c3 == IF c2.currentParent # 0 /\ ~el.forbidden
            THEN IF el.elseif \/ el.else
                 THEN processIfConditions(c2, element, c2.currentParent)
                 ELSE [c2 EXCEPT !.els[c2.currentParent].children =
                                     Append(@, ASTChild(1, element, "")),
                                 !.els[element].parent = c2.currentParent]
            ELSE c2
  IN trimEndingWhitespace(c3, element)

\* closeElement(element)
closeElement(c, element) ==
  LET c1 == trimEndingWhitespace(c, element)
      el == c1.els[element]
      c2 == IF c1.stack = << >> /\ element # c1.root
            THEN IF c1.els[c1.root].if /\ (el.elseif \/ el.else)
                 THEN [checkRootConstraints(c1, element)
                         EXCEPT !.els[c1.root].ifConditions = Append(@, element)]
                 ELSE warnOnce(c1, "Component template should contain exactly one root element")
            ELSE c1
      c3 == IF c2.currentParent # 0 /\ ~el.forbidden
            THEN IF el.elseif \/ el.else
                 THEN processIfConditions(c2, element, c2.currentParent)
                 ELSE [c2 EXCEPT !.els[c2.currentParent].children =
                                     Append(@, ASTChild(1, element, "")),
                                 !.els[element].parent = c2.currentParent]
            ELSE c2
  IN trimEndingWhitespace(c3, element)

\* The start handler of parse: createASTElement, processFor, processIf, the
\* root, and the stack or closeElement.
parseStart ==
  /\ compiler.fn = "parse" /\ compiler.html # << >> /\ compiler.html[1].e = "start"
  /\ LET c == [compiler EXCEPT !.html = Tail(@)]
         ev1 == compiler.html[1]
         element == Len(c.els) + 1
         isIf == "v-if" \in ev1.attrs
         c0 == IF isForbiddenTag(ev1.tag)
               THEN warn(c, "Templates should only be responsible for mapping the state to the UI")
               ELSE c
         c1 == [c0 EXCEPT !.els = Append(@,
                  [tag |-> ev1.tag, attrsMap |-> ev1.attrs, parent |-> c.currentParent,
                   children |-> << >>,
                   forbidden |-> isForbiddenTag(ev1.tag),
                   for |-> "v-for" \in ev1.attrs,
                   if |-> isIf,
                   else |-> ~isIf /\ "v-else" \in ev1.attrs,
                   elseif |-> ~isIf /\ "v-else-if" \in ev1.attrs,
                   ifConditions |-> IF isIf THEN << element >> ELSE << >>])]
         c2 == IF c1.root = 0 THEN checkRootConstraints([c1 EXCEPT !.root = element], element)
               ELSE c1
     IN compiler' = IF ~ev1.unary
                    THEN [c2 EXCEPT !.currentParent = element, !.stack = Append(@, element)]
                    ELSE closeElement(c2, element)
  /\ UNCHANGED runtimeVars

\* The end handler of parse.
parseEnd ==
  /\ compiler.fn = "parse" /\ compiler.html # << >> /\ compiler.html[1].e = "end"
  /\ LET c == [compiler EXCEPT !.html = Tail(@)]
         n == Len(c.stack)
         element == c.stack[n]
         c1 == [c EXCEPT !.stack = SubSeq(@, 1, n - 1),
                         !.currentParent = IF n > 1 THEN c.stack[n - 1] ELSE 0]
     IN compiler' = closeElement(c1, element)
  /\ UNCHANGED runtimeVars

\* The chars handler of parse, with the default whitespace options.
parseChars ==
  /\ compiler.fn = "parse" /\ compiler.html # << >> /\ compiler.html[1].e = "chars"
  /\ LET c == [compiler EXCEPT !.html = Tail(@)]
         text == compiler.html[1].text
         blank == text = " "
         p == c.currentParent
     IN compiler' =
          IF p = 0
          THEN IF compiler.template = << compiler.html[1] >>
               THEN warnOnce(c, "Component template requires a root element, rather than just text")
               ELSE IF ~blank
               THEN warnOnce(c, "text outside root element will be ignored")
               ELSE c
          ELSE LET children == c.els[p].children
                   n == Len(children)
               IN IF blank /\ n = 0 THEN c
                  ELSE IF ~blank \/ children[n].type # 3 \/ children[n].text # " "
                  THEN [c EXCEPT !.els[p].children = Append(@, ASTChild(3, 0, text))]
                  ELSE c
  /\ UNCHANGED runtimeVars

\* ----------------------------------------------- compiler: addHandler
\* The arguments of addHandler: static names, the modifiers as the set of
\* those that are set.
EventNames == { << "click" >> }
Modifiers == SUBSET {"capture", "once", "right", "native"}
HandlerValues == {"a", "b"}

\* prependModifierMarker(symbol, name, dynamic), dynamic being false
prependModifierMarker(symbol, name) == << symbol >> \o name

\* An entry of el.events or el.nativeEvents: one handler, or an array.
NoHandlers == [array |-> FALSE, handlers |-> << >>]

\* addHandler(el, name, value, modifiers, important): c.events and
\* c.nativeEvents are el.events and el.nativeEvents, a name without an
\* entry holding NoHandlers.
addHandlerCall(c, name, value, modifiers, important) ==
  LET right == "right" \in modifiers /\ name = << "click" >>
      name1 == IF right THEN << "contextmenu" >> ELSE name
      name2 == IF "capture" \in modifiers THEN prependModifierMarker("!", name1) ELSE name1
      name3 == IF "once" \in modifiers THEN prependModifierMarker("~", name2) ELSE name2
      events == IF "native" \in modifiers THEN "nativeEvents" ELSE "events"
      newHandler == [value |-> value,
                     modifiers |-> modifiers \ ({"capture", "once", "native"}
                                      \cup (IF right THEN {"right"} ELSE {}))]
      handlers == IF name3 \in DOMAIN c[events] THEN c[events][name3] ELSE NoHandlers
      \* the array handlers, changed in place, or a new array
      chained == IF handlers.array
                 THEN [handlers EXCEPT !.handlers = IF important THEN << newHandler >> \o @
                                                     ELSE Append(@, newHandler)]
                 ELSE IF handlers.handlers # << >>
                 THEN [array |-> TRUE,
                       handlers |-> IF important THEN << newHandler >> \o handlers.handlers
                                    ELSE Append(handlers.handlers, newHandler)]
                 ELSE handlers
      \* events[name] = newHandler, after the chain
      entry == [array |-> FALSE, handlers |-> << newHandler >>]
  IN [c EXCEPT ![events] = [n \in DOMAIN @ \cup {name3} |-> IF n = name3 THEN entry ELSE @[n]],
               !.registered = Append(@, [events |-> events, name |-> name3,
                                         handler |-> newHandler, important |-> important]),
               !.chained = chained]

addHandler(name, value, modifiers, important) ==
  /\ compiler.fn = "addHandler"
  /\ Len(compiler.registered) < MaxHandlers
  /\ compiler' = addHandlerCall(compiler, name, value, modifiers, important)
  /\ UNCHANGED runtimeVars

\* ------------------------------------------------------------------- Spec
Next ==
  \/ NewWatcher(ComponentWatcher(uid + 1))
  \/ \E k \in Keys : UserRead("data", k)
  \/ \E k \in Keys, v \in WriteVals : UserWrite("data", k, v)
  \/ \E w \in WatcherIds : UserTeardown(w)
  \/ UserThrow
  \/ \E v \in {"undef", "x"} : GetterReturn(v)
  \/ CbReturn
  \/ NotifyStep
  \/ NotifyEnd
  \/ TickStart
  \/ TickStep
  \/ TickEnd
  \/ FlushStep
  \/ FlushAfterRun
  \/ FlushEnd
  \/ Unwind

Spec == Init /\ [][Next]_vars

\* An update loop: a user watcher that invalidates itself on its re-runs, next
\* to the component's render watcher.
NextRunaway ==
  \/ NewWatcher(ComponentWatcher(uid + 1))
  \/ \E k \in Keys : UserRead("data", k)
  \/ \E k \in Keys : AtTopLevel /\ UserWrite("data", k, "x")
  \/ \E v \in WriteVals : SelfInvalidate("data", "a", v)
  \/ GetterReturn("undef")
  \/ NotifyStep
  \/ NotifyEnd
  \/ TickStart
  \/ TickStep
  \/ TickEnd
  \/ FlushStep
  \/ FlushAfterRun
  \/ FlushEnd

SpecRunaway == Init /\ [][NextRunaway]_vars

\* Computed properties: a lazy watcher read by scripts and by the render
\* watcher.
NextComputed ==
  \/ NewWatcher(ComputedComponent(uid + 1))
  \/ UserRead("data", "a")
  \/ \E w \in WatcherIds : ComputedRead(w)
  \/ \E v \in WriteVals : UserWrite("data", "a", v)
  \/ UserThrow
  \/ \E v \in {"undef", "x"} : GetterReturn(v)
  \/ NotifyStep
  \/ NotifyEnd
  \/ TickStart
  \/ TickStep
  \/ TickEnd
  \/ FlushStep
  \/ FlushAfterRun
  \/ FlushEnd
  \/ Unwind

SpecComputed == Init /\ [][NextComputed]_vars

\* After initData: observe(data, true) on data = {a: 'x', b: o1}, o1 = {a: 'x'}.
InitRun ==
  /\ val = [o \in Objs |-> [k \in Names |->
               CASE k \in ProtoKeys \/ o \notin Plain -> Absent
                 [] o = "data" /\ k = "b" -> "o1"
                 [] o = "o1" /\ k = "b" -> Absent
                 [] OTHER -> "x"]]
  /\ items = [o \in Arrays |-> << >>]
  /\ SetHeap(observeAsRoot(RawHeap, "data"))
  /\ InitControl

\* Nested evaluations (a computed property read by the render function), and
\* hooks and data() called with no target.
NextTarget ==
  \/ NewWatcher(ComputedComponent(uid + 1))
  \/ UserRead("data", "a")
  \/ UntrackedRead("data", "a")
  \/ \E w \in WatcherIds : ComputedRead(w)
  \/ callHook
  \/ HookReturn
  \/ AtTopLevel /\ \E v \in WriteVals : UserWrite("data", "a", v)
  \/ UserThrow
  \/ \E v \in {"undef", "x"} : GetterReturn(v)
  \/ NotifyStep
  \/ NotifyEnd
  \/ TickStart
  \/ TickStep
  \/ TickEnd
  \/ FlushStep
  \/ FlushAfterRun
  \/ FlushEnd
  \/ Unwind

SpecTarget == Init /\ [][NextTarget]_vars

\* Watchers of every kind on one property: evaluations nested (computed
\* reads), re-entered (a sync watcher whose evaluator writes what it reads),
\* repeated by the flush, and torn down.
NextSubs ==
  \/ \E opt \in {renderOptions, userOptions, syncOptions, computedWatcherOptions} :
        NewWatcher(opt)
  \/ UserRead("data", "a")
  \/ \E w \in WatcherIds : ComputedRead(w)
  \/ \E v \in WriteVals : UserWrite("data", "a", v)
  \/ \E w \in WatcherIds : UserTeardown(w)
  \/ \E v \in {"undef", "x"} : GetterReturn(v)
  \/ CbReturn
  \/ NotifyStep
  \/ NotifyEnd
  \/ TickStart
  \/ TickStep
  \/ TickEnd
  \/ FlushStep
  \/ FlushAfterRun
  \/ FlushEnd

SpecSubs == Init /\ [][NextSubs]_vars

\* User watchers, deep or not, whose evaluators return primitive values and
\* the observed object data.b.
NextRun ==
  \/ \E opt \in {userOptions, deepOptions} : NewWatcher(opt)
  \/ \E k \in Keys : UserRead("data", k)
  \/ AtTopLevel /\ \E v \in WriteVals : UserWrite("data", "a", v)
  \/ AtTopLevel /\ \E v \in WriteVals : UserWrite("o1", "a", v)
  \/ \E v \in {"undef", "x", "NaN", "o1"} : GetterReturn(v)
  \/ CbReturn
  \/ NotifyStep
  \/ NotifyEnd
  \/ TickStart
  \/ TickStep
  \/ TickEnd
  \/ FlushStep
  \/ FlushAfterRun
  \/ FlushEnd

SpecRun == InitRun /\ [][NextRun]_vars

\* Scripts that write data and defer a callback with nextTick.
NextDeferred ==
  \/ NewWatcher(ComponentWatcher(uid + 1))
  \/ UserRead("data", "a")
  \/ \E v \in WriteVals : UserWrite("data", "a", v)
  \/ NextTick
  \/ UserThrow
  \/ \E v \in {"undef", "x"} : GetterReturn(v)
  \/ CbReturn
  \/ NotifyStep
  \/ NotifyEnd
  \/ TickStart
  \/ TickStep
  \/ TickCallback
  \/ TickCallbackReturn
  \/ TickEnd
  \/ FlushStep
  \/ FlushAfterRun
  \/ FlushEnd
  \/ Unwind

SpecDeferred == Init /\ [][NextDeferred]_vars

\* Components and user watchers: two watchers of any of the two kinds,
\* components mounted, destroyed and queued for activation; scripts write
\* data.a and evaluators data.b, evaluators read both.
NextHooks ==
  \/ \E opt \in {renderOptions, userOptions} : NewWatcher(opt)
  \/ \E c \in WatcherIds : mountComponent(c)
  \/ \E c \in WatcherIds : destroy(c)
  \/ \E k \in Keys : UserRead("data", k)
  \/ AtTopLevel /\ \E v \in WriteVals : UserWrite("data", "a", v)
  \/ ~AtTopLevel /\ UserWrite("data", "b", "x")
  \/ GetterReturn("undef")
  \/ NotifyStep
  \/ NotifyEnd
  \/ TickStart
  \/ TickStep
  \/ TickEnd
  \/ FlushStep
  \/ FlushAfterRun
  \/ \E c \in WatcherIds : queueActivatedComponent(c)
  \/ FlushReset
  \/ callActivatedHooks
  \/ callUpdatedHooks
  \/ HookReturn
  \/ FlushReturn

SpecHooks == Init /\ [][NextHooks]_vars

\* The observation of plain objects, no watcher involved: data and o1 start
\* unobserved, data.b holding o1.
InitObserve ==
  /\ val = [o \in Objs |-> [k \in Names |->
               CASE k \in ProtoKeys \/ o \notin Plain -> Absent
                 [] o = "data" /\ k = "b" -> "o1"
                 [] OTHER -> "x"]]
  /\ items = [o \in Arrays |-> << >>]
  /\ SetHeap(RawHeap)
  /\ InitControl

NextObserve ==
  \/ \E o \in Plain, asRootData \in BOOLEAN : Observe(o, asRootData)
  \/ \E o \in Plain, k \in Keys, v \in {"x"} \cup Plain : UserWrite(o, k, v)

SpecObserve == InitObserve /\ [][NextObserve]_vars

\* Vue.set on plain objects, no watcher involved: data = {a: 'x', b: o1 or
\* undefined} is the root data, o1 = {a: 'x'}.
InitSet ==
  /\ \E b \in {"o1", "undef"} :
       val = [o \in Objs |-> [k \in Names |->
                CASE k \in ProtoKeys \/ o \notin Plain -> Absent
                  [] o = "data" /\ k = "b" -> b
                  [] o = "o1" /\ k = "b" -> Absent
                  [] OTHER -> "x"]]
  /\ items = [o \in Arrays |-> << >>]
  /\ SetHeap(observeAsRoot(RawHeap, "data"))
  /\ InitControl

NextSet ==
  \/ \E o \in Plain, k \in Names, v \in WriteVals : set(o, k, v)
  \/ \E k \in Keys, v \in {"x", "o1"} : UserWrite("data", k, v)

SpecSet == InitSet /\ [][NextSet]_vars

\* Vue.set and Vue.delete on a Vue instance, on root data and on other
\* objects, observed or not, with a watcher that reads them.
NextDel ==
  \/ \E o \in Plain \cup {"vm"}, k \in Names : set(o, k, "x")
  \/ \E o \in Plain \cup {"vm"}, k \in Names : del(o, k)
  \/ Observe("o1", TRUE)
  \/ uid = 0 /\ NewWatcher(userOptions)
  \/ \E k \in Keys : UserRead("data", k)
  \/ GetterReturn("undef")
  \/ NotifyStep
  \/ NotifyEnd

SpecDel == InitSet /\ [][NextDel]_vars

\* observe on values of every kind, nothing observed at first:
\* data = {a: frozen, b: arr}, arr = [date, o1], o1 = {a: vm, b: 'x'}.
InitEligible ==
  /\ val = [o \in Objs |-> [k \in Names |->
               CASE k \in ProtoKeys \/ o \notin Plain -> Absent
                 [] o = "data" -> (IF k = "a" THEN "frozen" ELSE "arr")
                 [] OTHER -> (IF k = "a" THEN "vm" ELSE "x")]]
  /\ items = [o \in Arrays |-> << "date", "o1" >>]
  /\ SetHeap(RawHeap)
  /\ InitControl

NextEligible ==
  \/ \E value \in Objs \cup {"x"}, asRootData \in BOOLEAN : Observe(value, asRootData)
  \/ \E value \in BOOLEAN : toggleObserving(value)

SpecEligible == InitEligible /\ [][NextEligible]_vars

\* An object other than a plain one or an array (a class instance) is never
\* observed, and _traverse goes into it every time it meets it.
Unobserved == { o \in Objs : isObject(o) /\ isExtensible(o) /\ ~isVNode(o) /\ obOf[o] = {} }

\* The objects o refers to.
Refs(o) ==
  IF isArray(o) THEN { items[o][j] : j \in 1..Len(items[o]) } \cap Objs
  ELSE { val[o][k] : k \in Names } \cap Objs

RECURSIVE ReachFrom(_, _, _)
\* The objects reached from those of S by n references or fewer, through
\* the objects of Via only.
ReachFrom(S, Via, n) ==
  IF n = 0 THEN S
  ELSE ReachFrom(S \cup UNION { Refs(o) : o \in S \cap Via }, Via, n - 1)

\* Every cycle of references passes through an observed container.
ObservedOnEveryCycle ==
  \A o \in Unobserved :
    o \notin ReachFrom(Refs(o) \cap Unobserved, Unobserved, Cardinality(Objs))

\* Watcher.get of the deep watcher 1, the getter having returned, on the
\* object graphs of data (the root data of a component), o1, the array arr
\* and an instance of a class, date.
InitTraverse ==
  /\ \E va \in {"x", "o1", "arr", "date"}, vb \in {"x", "o1", "arr", "date"},
        vc \in {"x", "data", "arr", "date"}, vd \in {"x", "o1", "arr", "date"},
        its \in {<< >>, << "o1" >>, << "arr" >>, << "date", "o1" >>} :
       /\ val = [o \in Objs |-> [k \in Names |->
                   CASE o = "data" /\ k = "a" -> va
                     [] o = "data" /\ k = "b" -> vb
                     [] o = "o1" /\ k = "a" -> vc
                     [] o = "date" /\ k = "a" -> vd
                     [] OTHER -> Absent]]
       /\ items = [o \in Arrays |-> its]
  /\ SetHeap(observeAsRoot(RawHeap, "data"))
  /\ ObservedOnEveryCycle
  /\ subs = [d \in DepIds |-> << >>]
  /\ targetStack = << 1 >>
  /\ uid = 1
  /\ watchers = [w \in WatcherIds |->
                   IF w = 1 THEN [NoWatcher EXCEPT !.user = TRUE, !.deep = TRUE, !.active = TRUE]
                   ELSE NoWatcher]
  /\ queue = << >>
  /\ has = [w \in WatcherIds |-> "undef"]
  /\ circular = [w \in WatcherIds |-> 0]
  /\ waiting = FALSE
  /\ flushing = FALSE
  /\ index = 0
  /\ callbacks = << >>
  /\ pending = FALSE
  /\ compiler = [fn |-> "none"]
  /\ lifecycle = NoLifecycle
  /\ seenObjects = {}
  /\ stack = << >>
  /\ exc = FALSE
  /\ fuel = MaxFuel
  /\ ev = Ev("init", 0)
  /\ flushLog = EmptyLog

NextTraverse ==
  \/ \E v \in {"x", "data", "o1", "arr", "date"} : traverseCall(v)
  \/ traverseStep
  \/ traverseReturn

SpecTraverse == InitTraverse /\ [][NextTraverse]_vars /\ WF_vars(NextTraverse)

\* Components with props and injections are constructed and updated, the
\* default factories of their props constructing components in turn.
NextProps ==
  \/ \E isRoot \in BOOLEAN, n \in 0..MaxProps : initProps(isRoot, n)
  \/ \E n \in 0..MaxProps : updateChildComponent(n)
  \/ \E absent \in BOOLEAN : validateProp(absent)
  \/ getPropDefaultValue
  \/ propsReturn
  \/ \E result \in BOOLEAN : initInjections(result)

SpecProps == Init /\ [][NextProps]_vars

\* No component: the compiler at work.
Idle ==
  /\ val = [o \in Objs |-> [k \in Names |-> Absent]]
  /\ items = [o \in Arrays |-> << >>]
  /\ SetHeap(RawHeap)
  /\ subs = [d \in DepIds |-> << >>]
  /\ targetStack = << >>
  /\ uid = 0
  /\ watchers = [w \in WatcherIds |-> NoWatcher]
  /\ queue = << >>
  /\ has = [w \in WatcherIds |-> "undef"]
  /\ circular = [w \in WatcherIds |-> 0]
  /\ waiting = FALSE
  /\ flushing = FALSE
  /\ index = 0
  /\ callbacks = << >>
  /\ pending = FALSE
  /\ stack = << >>
  /\ exc = FALSE
  /\ fuel = MaxFuel
  /\ ev = Ev("init", 0)
  /\ flushLog = EmptyLog
  /\ lifecycle = NoLifecycle
  /\ seenObjects = {}

\* parseHTML(html, options) on every template.
InitScan ==
  /\ Idle
  /\ \E html \in Templates(MaxTokens) :
       compiler = [fn |-> "parseHTML", input |-> html, html |-> html, stack |-> << >>,
                   lastTag |-> "", events |-> << >>, warns |-> << >>, forced |-> 0,
                   broke |-> FALSE, done |-> FALSE]

NextScan ==
  \/ parseHTMLLoop
  \/ parseHTMLEnd

SpecScan == InitScan /\ [][NextScan]_vars

\* parseHTML(html, options) on templates with malformed pieces; the loop is
\* not suspended for ever.
InitMalformed ==
  /\ Idle
  /\ \E html \in MalformedTemplates(MaxTokens) :
       compiler = [fn |-> "parseHTML", input |-> html, html |-> html, stack |-> << >>,
                   lastTag |-> "", events |-> << >>, warns |-> << >>, forced |-> 0,
                   broke |-> FALSE, done |-> FALSE]

SpecMalformed == InitMalformed /\ [][NextScan]_vars /\ WF_vars(NextScan)

\* parseFilters(exp) on every expression.
InitFilters ==
  /\ Idle
  /\ \E exp \in Expressions(MaxExp) :
       compiler = [fn |-> "parseFilters", exp |-> exp, result |-> undefined, done |-> FALSE]

NextFilters == callParseFilters

SpecFilters == InitFilters /\ [][NextFilters]_vars

\* parseText(text) on every text.
InitText ==
  /\ Idle
  /\ \E text \in Texts(MaxPieces) :
       compiler = [fn |-> "parseText", text |-> text,
                   result |-> [defined |-> FALSE, expression |-> << >>, tokens |-> << >>],
                   done |-> FALSE]

NextText == callParseText

SpecText == InitText /\ [][NextText]_vars

\* optimize(root, options) on every tree, and on no tree.
InitOptimize ==
  /\ Idle
  /\ \/ \E ast \in ASTs(MaxNodes) :
          compiler = [fn |-> "optimize", root |-> 1, ast |-> ast, pc |-> "optimize"]
     \/ compiler = [fn |-> "optimize", root |-> 0, ast |-> << >>, pc |-> "optimize"]

NextOptimize ==
  \/ optimizeMarkStatic
  \/ optimizeMarkStaticRoots

SpecOptimize == InitOptimize /\ [][NextOptimize]_vars

\* createCompileToFunctionFn(compile): nothing cached.
InitCompile ==
  /\ Idle
  /\ compiler = [fn |-> "compileToFunctions", cache |-> << >>, objects |-> << >>,
                 compiles |-> 0, result |-> 0, template |-> << >>, delimiters |-> << >>,
                 again |-> FALSE, returned |-> << >>]

NextCompile ==
  \E template \in TemplateTexts, delimiters \in DelimiterOptions :
     compileToFunctions(template, delimiters)

SpecCompile == InitCompile /\ [][NextCompile]_vars

\* parse(template, options) on every sequence of events.
InitParse ==
  /\ Idle
  /\ \E es \in EventSequences(MaxEvents) :
       compiler = [fn |-> "parse", template |-> es, html |-> es, stack |-> << >>,
                   root |-> 0, currentParent |-> 0, warned |-> FALSE, warns |-> << >>,
                   els |-> << >>]

NextParse ==
  \/ parseStart
  \/ parseEnd
  \/ parseChars

SpecParse == InitParse /\ [][NextParse]_vars

\* parse on the events of templates with conditionals and forbidden tags.
InitBranches ==
  /\ Idle
  /\ \E es \in EventSequencesOf(BranchEvents, MaxEvents) :
       compiler = [fn |-> "parse", template |-> es, html |-> es, stack |-> << >>,
                   root |-> 0, currentParent |-> 0, warned |-> FALSE, warns |-> << >>,
                   els |-> << >>]

SpecBranches == InitBranches /\ [][NextParse]_vars

\* addHandler on an element without handlers.
InitHandlers ==
  /\ Idle
  /\ compiler = [fn |-> "addHandler", events |-> << >>, nativeEvents |-> << >>,
                 registered |-> << >>, chained |-> NoHandlers]

NextHandlers ==
  \E name \in EventNames, value \in HandlerValues, modifiers \in Modifiers,
     important \in BOOLEAN : addHandler(name, value, modifiers, important)

SpecHandlers == InitHandlers /\ [][NextHandlers]_vars

\* An observed array: data = {a: 'x', b: arr}, arr = [], rendered by the
\* component's watchers.
ArgLists(method) ==
  LET Elems == {"x", "o1"}
  IN CASE method \in {"push", "unshift"} -> { << el >> : el \in Elems }
       [] method = "splice" ->
            { << start, deleteCount >> \o ins :
                start \in 0..1, deleteCount \in 0..1,
                ins \in {<< >>} \cup { << el >> : el \in Elems } }
       [] OTHER -> { << >> }

InitArray ==
  /\ val = [o \in Objs |-> [k \in Names |->
               CASE k \in ProtoKeys \/ o \notin Plain -> Absent
                 [] o = "data" /\ k = "b" -> "arr"
                 [] OTHER -> "x"]]
  /\ items = [o \in Arrays |-> << >>]
  /\ InitControl
  /\ SetHeap(observeAsRoot(RawHeap, "data"))

NextArray ==
  \/ NewWatcher(renderOptions)
  \/ UserRead("data", "b")
  \/ \E method \in methodsToPatch : \E args \in ArgLists(method) :
       mutator("arr", method, args)
  \/ GetterReturn("undef")
  \/ NotifyStep
  \/ NotifyEnd
  \/ TickStart
  \/ TickStep
  \/ TickEnd
  \/ FlushStep
  \/ FlushAfterRun
  \/ FlushEnd

SpecArray == InitArray /\ [][NextArray]_vars

\* ------------------------------------------------------------- properties
Subscribed(w) == { d \in DepIds : w \in Range(subs[d]) }

Queued == Range(flushLog.start)
FirstRun(w) == CHOOSE j \in 1..Len(flushLog.runs) :
                  flushLog.runs[j] = w /\ \A h \in 1..(j - 1) : flushLog.runs[h] # w

C3_SubscribedIffRead ==
  ev.kind = "getDone" => Subscribed(ev.w) = ev.reads

\* C3, amended: the same, for an evaluation during which the watcher was
\* neither torn down nor evaluated again (re-entered).
C3_SubscribedIffReadUndisturbed ==
  (ev.kind = "getDone" /\ ev.clean) => Subscribed(ev.w) = ev.reads

\* An undisturbed re-evaluation that dropped a Dep it held and took a new one.
C3_Witness ==
  /\ ev.kind = "getDone" /\ ev.clean /\ ev.pc = "run"
  /\ ev.reads = {2}
  /\ subs[1] = << >>
  /\ ev.w \in Range(subs[2])

\* C4: a write of a value identical to the current one (=== or both NaN)
\* calls update() on no subscriber and leaves the stored value unchanged:
\* the step changes neither the heap, nor the call stack (no notify loop is
\* entered), nor any watcher, nor the scheduler's queue.
C4_IdenticalWriteIsNoOp ==
  [][(ev'.kind \in {"set", "setSame"} /\ ev'.v = ev'.old)
       => UNCHANGED << heapVars, compiler, stack, watchers, subs, schedVars, tickVars >>]_vars

\* NaN written over NaN on a property that has subscribers.
C4_Witness ==
  ev.kind = "setSame" /\ ev.v = "NaN" /\ ev.old = "NaN" /\ subs[ev.d] # << >>

\* C5: observe(v) on a value that already carries an Observer returns that
\* Observer, creates no Dep (the uid counter and every Observer and property
\* Dep stay as they are) and re-defines no accessor, however often repeated.
C5_ObserveIsIdempotent ==
  [][(ev'.kind = "observe" /\ obOf[ev'.v] # {})
       => /\ ev'.ob = obOf[ev'.v]
          /\ UNCHANGED << val, propDep, childOb, obOf, depUid, subs >>]_vars

\* observe() returned the Observer the value already had.
C5_Witness ==
  ev.kind = "observe" /\ ev.had /\ ev.ob = obOf[ev.v] /\ ev.ob # {}

\* C6, as stated: in one flush, a watcher that re-enqueues itself on every
\* run is stopped after exactly 100 runs, with exactly one 'infinite update
\* loop' error.
C6_StoppedAfter100Runs ==
  (flushLog.cut = "guard" /\ flushLog.cutBy \notin flushLog.quiet)
    => /\ Occurrences(flushLog.runs, flushLog.cutBy) = MAX_UPDATE_COUNT
       /\ flushLog.warns = 1

\* C6, amended: such a watcher is stopped after exactly 101 runs, the run
\* after which its count of re-enqueues first exceeds MAX_UPDATE_COUNT, with
\* exactly one 'infinite update loop' error; up to then no error is reported.
C6_StoppedAfter101Runs ==
  /\ (flushLog.cut = "guard" /\ flushLog.cutBy \notin flushLog.quiet)
       => /\ Occurrences(flushLog.runs, flushLog.cutBy) = MAX_UPDATE_COUNT + 1
          /\ flushLog.warns = 1
  /\ flushLog.cut # "guard" => flushLog.warns = 0
  /\ \A w \in WatcherIds \ flushLog.quiet :
        Occurrences(flushLog.runs, w) <= MAX_UPDATE_COUNT + 1

\* The flush is over, cut by the guard at watcher 1.
C6_Witness ==
  /\ ev.kind = "flushEnd" /\ flushLog.cut = "guard" /\ flushLog.cutBy = 1
  /\ 1 \notin flushLog.quiet

\* C7, as stated: when the guard stops a self-re-enqueuing watcher, every
\* other watcher that was pending in the queue is still run in that flush.
C7_OthersStillRun ==
  (ev.kind = "flushEnd" /\ flushLog.cut = "guard")
    => \A w \in Queued : w \in Range(flushLog.runs)

\* C8, as stated: when a user watcher's evaluator throws during a re-run,
\* the error goes to the handler, the cached value is unchanged and the
\* callback is not invoked.
C8_ThrowKeepsValueAndSkipsCallback ==
  (ev.kind = "getDone" /\ ev.pc = "run" /\ ev.threw /\ watchers[ev.w].user)
    => /\ ev.handled
       /\ watchers[ev.w].value = ev.old
       /\ ~ev.fired

\* C9, as stated: when the evaluator or the callback of a user watcher
\* throws during a flush, the flush continues: once the flush is over every
\* watcher that was queued has been run and the scheduler state is reset.
C9_FlushSurvivesUserError ==
  (/\ stack # << >> /\ Top.k = "tick" /\ ~exc
   /\ flushLog.start # << >>
   /\ \E w \in flushLog.throwers : watchers[w].user)
    => /\ \A w \in Queued : w \in Range(flushLog.runs)
       /\ queue = << >> /\ index = 0 /\ ~waiting /\ ~flushing
       /\ \A w \in WatcherIds : has[w] = "undef" /\ circular[w] = 0

\* C10, as stated: once teardown() has returned and any evaluation of the
\* watcher in progress has finished, the watcher is in no Dep's subs.
C10_TornDownIsUnsubscribed ==
  \A w \in 1..uid : (~watchers[w].active /\ ~Evaluating(w)) => Subscribed(w) = {}

\* C11: a lazy watcher's evaluator runs only from a computed read that finds
\* the watcher dirty, so since the last invalidation (construction or a
\* notification) the reads ran it at most once, and a read served from the
\* cache follows exactly one evaluation.
C11_EvaluatedOncePerInvalidation ==
  \A w \in 1..uid :
    watchers[w].lazy =>
      /\ watchers[w].evals <= 1
      /\ (ev.kind = "computedRead" /\ ev.w = w /\ ~ev.fired) => watchers[w].evals = 1

\* C12: when a callback registered with nextTick starts, every watcher that
\* was invalidated before the registration, in the same synchronous block,
\* has been run again since.
C12_CallbackAfterFlush ==
  ev.kind = "tickCb" => \A w \in 1..uid : ~watchers[w].owed

\* C13: set(target, key, val) on an observed object that is not root data
\* defines a reactive property and notifies the object's own Dep (once) when
\* key is not yet a property of target; when key is already a property it
\* assigns val through that property and does not notify the object's Dep.
C13_SetAddsOrAssigns ==
  (ev.by = "set" /\ obOf[ev.o] # {} /\ vmCount[ev.o] = 0) =>
     /\ val[ev.o][ev.key] = ev.v
     /\ propDep[ev.o][ev.key] # {}
     /\ IF ev.had THEN ev.d \notin obOf[ev.o]
        ELSE ev.kind = "defineReactive" /\ ev.d \in obOf[ev.o]

\* C14: a call of a wrapped array method on an observed array leaves the
\* array as the native method does and returns what it returns; every element
\* the call brought into the array (that observe accepts) has its Observer
\* when the call notifies; and the call notifies the Dep of the array's
\* Observer once: one pass over that Dep's subscribers is begun, and no
\* subscriber has been told before the call is over.
C14_MutatorObservesThenNotifiesOnce ==
  [][ev'.kind = "mutator" =>
       LET this == ev'.o
           native == original(ev'.key, this, ev'.args)
       IN /\ items'[this] = native.items
          /\ ev'.res = native.result
          /\ \A el \in Range(items'[this]) \ Range(items[this]) :
                canObserve(Heap, el) => obOf'[el] # {}
          /\ ev'.d \in obOf[this]
          /\ stack' = IF subs[ev'.d] = << >> THEN stack
                      ELSE Append(stack, [Frame("notify", 0, "") EXCEPT
                                             !.subs = subs[ev'.d], !.i = 1])
          /\ UNCHANGED << watchers, schedVars, tickVars >>]_vars

\* splice brought o1 into the array, o1 is observed, and the pass over the
\* subscribers of the array's Dep has not delivered anything yet.
C14_Witness ==
  /\ ev.kind = "mutator" /\ ev.key = "splice" /\ ev.res[1] = "removed"
  /\ "o1" \in Range(items[ev.o]) /\ obOf["o1"] # {}
  /\ stack # << >> /\ Top.k = "notify" /\ Top.i = 1 /\ Top.subs # << >>

\* C15: an Observer is created for a value only if the value is an array or a
\* plain object, extensible, not a Vue instance, and the observation toggle is
\* on; observe of a value that is none of these and has no Observer returns
\* undefined and leaves the value, and everything else, as it was.
C15_ObservesOnlyEligible ==
  [][/\ \A o \in Objs :
          (obOf[o] = {} /\ obOf'[o] # {}) =>
             /\ isArray(o) \/ isPlainObject(o)
             /\ isExtensible(o) /\ ~isVue(o)
             /\ shouldObserve
     /\ (/\ ev'.kind = "observe"
         /\ ~(isObject(ev'.v) /\ obOf[ev'.v] # {})
         /\ ~(/\ isArray(ev'.v) \/ isPlainObject(ev'.v)
              /\ isExtensible(ev'.v) /\ ~isVue(ev'.v)
              /\ shouldObserve))
          => /\ ev'.ob = {}
             /\ UNCHANGED << val, items, propDep, childOb, obOf, vmCount, depUid >>]_vars

\* observe(data) made Observers for data, the array it holds and the plain
\* object in the array, and none for the frozen object, the Date and the Vue
\* instance it met on the way.
C15_Witness ==
  /\ ev.kind = "observe" /\ ev.v = "data" /\ ~ev.had /\ ev.ob # {}
  /\ obOf["arr"] # {} /\ obOf["o1"] # {}
  /\ obOf["frozen"] = {} /\ obOf["date"] = {} /\ obOf["vm"] = {}

\* ---------------------------------------------------------------- scanner
\* The events a well-formed template stands for, from token j on with the
\* open elements st: every end tag closes the innermost open element, nothing
\* is open at the end, the content of a plain text element up to its end tag
\* is one text, and no start tag closes a paragraph implicitly.
RECURSIVE Expected(_, _, _)
Expected(html, j, st) ==
  IF j > Len(html) THEN [ok |-> st = << >>, events |-> << >>]
  ELSE
    LET tok == html[j]
        top == IF st = << >> THEN "" ELSE st[Len(st)]
        then(evs, k, st1) ==
          LET r == Expected(html, k, st1)
          IN [ok |-> r.ok, events |-> evs \o r.events]
        bad == [ok |-> FALSE, events |-> << >>]
    IN CASE tok.t = "comment" -> then(<< >>, j + 1, st)
         [] tok.t = "text" -> then(<< Event("chars", "", FALSE, << tok >>) >>, j + 1, st)
         [] tok.t = "close" ->
              IF top = tok.tag
              THEN then(<< Event("end", tok.tag, FALSE, << >>) >>, j + 1,
                        SubSeq(st, 1, Len(st) - 1))
              ELSE bad
         [] OTHER ->
              IF top = "p" /\ (isNonPhrasingTag(tok.tag) \/ tok.tag = "p") THEN bad
              ELSE IF tok.tag \in options.isUnaryTag \/ tok.slash
              THEN then(<< Event("start", tok.tag, TRUE, << >>) >>, j + 1, st)
              ELSE IF isPlainTextElement(tok.tag)
              THEN LET ends == { k \in (j + 1)..Len(html) :
                                   html[k].t = "close" /\ html[k].tag = tok.tag }
                   IN IF ends = {} THEN bad
                      ELSE LET k == CHOOSE i \in ends : \A m \in ends : i <= m
                               text == SubSeq(html, j + 1, k - 1)
                           IN then(<< Event("start", tok.tag, FALSE, << >>) >>
                                     \o (IF text = << >> THEN << >>
                                         ELSE << Event("chars", "", FALSE, text) >>)
                                     \o << Event("end", tok.tag, FALSE, << >>) >>,
                                   k + 1, st)
              ELSE then(<< Event("start", tok.tag, FALSE, << >>) >>, j + 1,
                        Append(st, tok.tag))

\* C16: when parseHTML has returned: for a well-formed template the events
\* are those of its tokens in source order (an empty text is no event) and
\* there is no diagnostic; and every element that was still open at the end
\* of the template, or beneath the element an end tag closed, got one close
\* event and one 'has no matching end tag' diagnostic.
C16_EventsAndDiagnostics ==
  (compiler.fn = "parseHTML" /\ compiler.done) =>
    LET c == compiler
        exp == Expected(c.input, 1, << >>)
        emitted == SelectSeq(c.events, LAMBDA x : ~(x.e = "chars" /\ x.text = << >>))
        noend == SelectSeq(c.warns, LAMBDA x : x.e = "no matching end tag")
    IN /\ exp.ok => (emitted = exp.events /\ c.warns = << >>)
       /\ Len(noend) = c.forced

\* ------------------------------------------------------------ filter chain
\* What an expression stands for, read by the rules of the language and not
\* by the scanner's: a backslash inside a string or regex literal takes the
\* next character with it; '/' after an operand (a name, ')', a string or a
\* regex literal) divides and otherwise opens a regex literal.  ok: literals
\* are closed, parentheses balance, an operand stands before every pipe and
\* at the end, and every filter is a name or a call closed by ')'.  result: the base expression wrapped by the filters, from
\* left to right, split at the top-level single pipes.
FilterChain(exp) ==
  LET charAt(j) == IF j \in 1..Len(exp) THEN exp[j] ELSE ""
      RECURSIVE lex(_, _)
      lex(s, i) ==
        IF i > Len(exp)
        THEN [s EXCEPT !.ok = @ /\ s.mode = "code" /\ s.paren = 0 /\ s.operand]
        ELSE
          LET c == exp[i]
          IN IF s.mode # "code"
             THEN IF c = "\\" THEN lex(s, i + 2)
                  ELSE IF c = s.mode
                  THEN lex([s EXCEPT !.mode = "code", !.operand = TRUE], i + 1)
                  ELSE lex(s, i + 1)
             ELSE CASE c = "'" -> lex([s EXCEPT !.mode = c], i + 1)
                    [] c = "/" -> IF s.operand THEN lex([s EXCEPT !.operand = FALSE], i + 1)
                                  ELSE lex([s EXCEPT !.mode = c], i + 1)
                    [] c = "(" -> lex([s EXCEPT !.paren = @ + 1, !.operand = FALSE], i + 1)
                    [] c = ")" -> lex([s EXCEPT !.paren = @ - 1, !.operand = TRUE,
                                                !.ok = @ /\ s.paren > 0], i + 1)
                    [] c = "|" ->
                         lex([s EXCEPT !.operand = FALSE,
                                       !.ok = @ /\ s.operand,
                                       !.pipes = IF /\ s.paren = 0
                                                    /\ charAt(i + 1) # "|"
                                                    /\ charAt(i - 1) # "|"
                                                 THEN Append(@, i) ELSE @], i + 1)
                    [] c = " " -> lex(s, i + 1)
                    [] c = "\\" -> lex([s EXCEPT !.ok = FALSE], i + 1)
                    [] OTHER -> lex([s EXCEPT !.operand = TRUE], i + 1)
      l == lex([mode |-> "code", operand |-> FALSE, paren |-> 0, pipes |-> << >>,
                ok |-> TRUE], 1)
      n == Len(l.pipes)
      piece(k) == trim(SubSeq(exp, IF k = 0 THEN 1 ELSE l.pipes[k] + 1,
                              IF k = n THEN Len(exp) ELSE l.pipes[k + 1] - 1))
      isCall(f) == \E j \in 1..Len(f) : f[j] = "("
      call(prev, f) ==
        LET i == CHOOSE j \in 1..Len(f) : f[j] = "(" /\ \A k \in 1..(j - 1) : f[k] # "("
            args == SubSeq(f, i + 1, Len(f) - 1)
        IN << "_", "f", "(", "\"" >> \o SubSeq(f, 1, i - 1) \o << "\"", ")", "(" >> \o prev
             \o (IF args = << >> THEN << >> ELSE << "," >> \o args) \o << ")" >>
      name(prev, f) ==
        << "_", "f", "(", "\"" >> \o f \o << "\"", ")", "(" >> \o prev \o << ")" >>
      RECURSIVE chain(_)
      chain(k) == IF k = 0 THEN piece(0)
                  ELSE IF isCall(piece(k)) THEN call(chain(k - 1), piece(k))
                  ELSE name(chain(k - 1), piece(k))
  IN [ok |-> l.ok /\ \A k \in 1..n : isCall(piece(k)) => piece(k)[Len(piece(k))] = ")",
      pipes |-> n,
      result |-> IF l.ok THEN chain(n) ELSE << >>]

\* C17: parseFilters returns the base expression wrapped by the filters, from
\* left to right, split at every top-level single pipe (outside strings,
\* regex literals and parentheses, not part of '||'); without such a pipe it
\* returns the expression trimmed.
C17_SplitsAtTopLevelPipes ==
  (compiler.fn = "parseFilters" /\ compiler.done) =>
    LET f == FilterChain(compiler.exp)
    IN f.ok => compiler.result = f.result

\* ----------------------------------------------------------- interpolation
\* The expression a text stands for: its literal segments, each written by
\* Q, and its interpolations {{ e }}, each written _s(e) with e trimmed and
\* its filters applied, in source order and joined by '+'.  An interpolation
\* is the leftmost '{{' and the first '}}' after at least one character.
RECURSIVE TextExpression(_, _, _)
TextExpression(text, Q(_), first) ==
  LET at(j, c) == j + 1 <= Len(text) /\ text[j] = c /\ text[j + 1] = c
      pairs == { p \in (1..Len(text)) \X (1..Len(text)) :
                   at(p[1], "{") /\ at(p[2], "}") /\ p[2] >= p[1] + 3 }
      plus == IF first THEN << >> ELSE << "+" >>
  IN IF pairs = {}
     THEN IF text = << >> THEN << >> ELSE plus \o Q(text)
     ELSE LET p == CHOOSE q \in pairs :
                     \A r \in pairs : q[1] < r[1] \/ (q[1] = r[1] /\ q[2] <= r[2])
              e == parseFilters(trim(SubSeq(text, p[1] + 2, p[2] - 1)))
              head == IF p[1] = 1 THEN << >> ELSE plus \o Q(SubSeq(text, 1, p[1] - 1))
          IN head \o (IF first /\ p[1] = 1 THEN << >> ELSE << "+" >>)
                  \o << "_", "s", "(" >> \o e \o << ")" >>
                  \o TextExpression(SubSeq(text, p[2] + 2, Len(text)), Q, FALSE)

\* The text holds '{{' and, later, '}}'.
HasDelimiterPair(text) ==
  \E i, j \in 1..(Len(text) - 1) :
     /\ text[i] = "{" /\ text[i + 1] = "{" /\ text[j] = "}" /\ text[j + 1] = "}"
     /\ j >= i + 2

\* The text holds an interpolation: something stands between the delimiters.
HasInterpolation(text) ==
  \E i, j \in 1..(Len(text) - 1) :
     /\ text[i] = "{" /\ text[i + 1] = "{" /\ text[j] = "}" /\ text[j + 1] = "}"
     /\ j >= i + 3

LiteralLeaf(ast, i) ==
  /\ ast[i].type = 1
  /\ ast[i].children = << >>
  /\ ast[i].tag \in options.isReservedTag
  /\ ast[i].attrsMap \subseteq {"id", "class"}
  /\ ast[i].keys \cap {"hasBindings", "if", "for"} = {}

\* Node j lies in the subtree of node i.
RECURSIVE Under(_, _, _)
Under(ast, j, i) ==
  ast[j].parent # 0 /\ (ast[j].parent = i \/ Under(ast, ast[j].parent, i))

C20_StaticRootInLoopIsFlagged ==
  (compiler.fn = "optimize" /\ compiler.pc = "done") =>
    LET ast == compiler.ast
    IN \A i \in DOMAIN ast :
         "for" \in ast[i].keys =>
           /\ ~ast[i].staticRoot
           /\ \A j \in DOMAIN ast :
                (Under(ast, j, i) /\ ast[j].staticRoot) => ast[j].staticInFor

\* A static root in the subtree of an element with v-for.
C20_Witness ==
  /\ compiler.fn = "optimize" /\ compiler.pc = "done"
  /\ \E i, j \in DOMAIN compiler.ast :
       /\ "for" \in compiler.ast[i].keys
       /\ Under(compiler.ast, j, i)
       /\ compiler.ast[j].staticRoot /\ compiler.ast[j].staticInFor

\* C20 (as stated): after optimize, neither an element with v-for nor any
\* element in its subtree is marked staticRoot = true.
C20_NoStaticRootInLoop ==
  (compiler.fn = "optimize" /\ compiler.pc = "done") =>
    LET ast == compiler.ast
    IN \A i \in DOMAIN ast :
         "for" \in ast[i].keys =>
           /\ ~ast[i].staticRoot
           /\ \A j \in DOMAIN ast : Under(ast, j, i) => ~ast[j].staticRoot

\* ------------------------------------------------------------------- cache
\* C21: a call of compileToFunctions with a template and delimiters it was
\* called with before returns the object that call returned and does not
\* compile; no call replaces a cached object or changes what it holds.
C21_CachedResultIsReturned ==
  [][compiler.fn = "compileToFunctions" =>
       LET c == compiler
           input == << compiler'.template, compiler'.delimiters >>
       IN /\ input \in DOMAIN c.returned =>
               /\ compiler'.result = c.returned[input]
               /\ compiler'.compiles = c.compiles
          /\ \A key \in DOMAIN c.cache :
               /\ key \in DOMAIN compiler'.cache
               /\ compiler'.cache[key] = c.cache[key]
               /\ compiler'.objects[c.cache[key]] = c.objects[c.cache[key]]]_vars

\* A repeated call after calls with other templates and delimiters.
C21_Witness ==
  /\ compiler.fn = "compileToFunctions"
  /\ compiler.again
  /\ compiler.compiles >= 2
  /\ compiler.delimiters # << >>
  /\ compiler.result < compiler.compiles

\* ---------------------------------------------------------------- C22
\* The elements of the tree parse returns: the root, and what its children
\* and conditional branches reach.
RECURSIVE InTree(_, _, _)
InTree(c, el, depth) ==
  \/ el = c.root
  \/ /\ depth > 0
     /\ \E up \in 1..Len(c.els) :
          /\ InTree(c, up, depth - 1)
          /\ \/ \E j \in 1..Len(c.els[up].children) :
                  c.els[up].children[j].type = 1 /\ c.els[up].children[j].el = el
             \/ \E j \in 1..Len(c.els[up].ifConditions) : c.els[up].ifConditions[j] = el

\* The top-level elements after the first: created with no element open.
LaterTopLevel(c) ==
  { el \in 2..Len(c.els) : c.els[el].parent = 0
                             /\ ~\E up \in 1..Len(c.els) :
                                   \E j \in 1..Len(c.els[up].children) :
                                     c.els[up].children[j].type = 1
                                       /\ c.els[up].children[j].el = el }

ParseDone == compiler.fn = "parse" /\ compiler.html = << >>

OneRootError == "Component template should contain exactly one root element"

Reported(c, msg) == \E j \in 1..Len(c.warns) : c.warns[j] = msg

RootAndBranches ==
  ParseDone =>
    /\ compiler.root = (IF compiler.els = << >> THEN 0 ELSE 1)
    /\ \A el \in LaterTopLevel(compiler) :
         LET branch == compiler.els[compiler.root].if
                         /\ (compiler.els[el].else \/ compiler.els[el].elseif)
         IN /\ InTree(compiler, el, MaxEvents) <=> branch
            /\ branch => \E j \in 1..Len(compiler.els[compiler.root].ifConditions) :
                           compiler.els[compiler.root].ifConditions[j] = el

LeftOut ==
  { el \in LaterTopLevel(compiler) : ~InTree(compiler, el, MaxEvents) }

\* C22 (as amended): parse returns the first top-level element as the root; a
\* later top-level element is part of the result only as a conditional branch
\* of the root, when the root has v-if and the element has v-else-if or
\* v-else; any other later top-level element is left out, and the 'exactly
\* one root element' error is reported unless another once-only warning of
\* this parse (root constraints, text outside the root) was given before.
C22_RootAndBranchesWarnedOnce ==
  /\ RootAndBranches
  /\ ParseDone /\ LeftOut # {} =>
       /\ compiler.warned
       /\ Cardinality({ j \in 1..Len(compiler.warns) :
                          compiler.warns[j] \in
                            { OneRootError,
                              "Cannot use tag as component root element",
                              "Cannot use v-for on stateful component root element",
                              "text outside root element will be ignored" } }) = 1

\* A v-if root with a v-else branch, and another top-level element that is
\* left out with the error reported.
C22_Witness ==
  /\ ParseDone
  /\ Len(compiler.els) = 3
  /\ compiler.els[1].if /\ compiler.els[2].else
  /\ LaterTopLevel(compiler) = {2, 3}
  /\ InTree(compiler, 2, MaxEvents) /\ LeftOut = {3}
  /\ compiler.warns = << OneRootError >>

\* C22 (as stated): ... and the 'exactly one root element' error is reported.
C22_RootAndBranchesReported ==
  /\ RootAndBranches
  /\ ParseDone /\ LeftOut # {} => Reported(compiler, OneRootError)

\* ---------------------------------------------------------------- C23
\* The handlers registered for an event name of el.events or el.nativeEvents,
\* in registration order with the important ones placed first.
RECURSIVE Registered(_, _, _, _)
Registered(c, events, name, n) ==
  IF n = 0 THEN << >>
  ELSE LET r == c.registered[n]
           before == Registered(c, events, name, n - 1)
       IN IF r.events = events /\ r.name = name
          THEN IF r.important THEN << r.handler >> \o before ELSE Append(before, r.handler)
          ELSE before

\* C23 (as stated): after addHandler is called several times for the same
\* event name on one element, the element's events entry for that name holds
\* every registered handler, in registration order with handlers flagged
\* important placed first; no handler is dropped.
C23_EveryHandlerIsHeld ==
  compiler.fn = "addHandler" =>
    \A events \in {"events", "nativeEvents"} :
      \A name \in DOMAIN compiler[events] :
        compiler[events][name].handlers
          = Registered(compiler, events, name, Len(compiler.registered))


\* ---------------------------------------------------------------- C24
\* The frame of the running flush, and the part of the queue it has not run
\* yet: what follows the entry being run, or the entry the loop is at.
FlushFrame == CHOOSE j \in 1..Len(stack) : stack[j].k = "flush"
NotYetRun ==
  SubSeq(queue, index + (IF stack[FlushFrame].pc = "loop" THEN 1 ELSE 2), Len(queue))

\* A flush has ended within the running tick.
FlushOver == stack # << >> /\ Top.k = "tick" /\ ~exc /\ flushLog.start # << >>

\* C24 (as stated): a watcher enqueued while a flush is running is inserted
\* after the entry currently being run, at the position that keeps the
\* not-yet-run part of the queue in ascending id order, and it is run once
\* within that same flush rather than in a later tick.
C24_EnqueuedInFlushIsRunInIt ==
  /\ (InFlush /\ ev.kind = "queueWatcher" /\ ev.fired) =>
        /\ ev.w \in Range(NotYetRun)
        /\ \A j \in 1..(Len(NotYetRun) - 1) : NotYetRun[j] < NotYetRun[j + 1]
  /\ FlushOver =>
        \A w \in flushLog.reenq :
          Occurrences(flushLog.runs, w) >= 1 + Occurrences(flushLog.start, w)

\* ---------------------------------------------------------------- C25
\* The flushes handed to nextTick and not started yet: in callbacks, or among
\* the copies the running tick has still to call.
FlushesScheduled(cbs, s) ==
  Occurrences(cbs, "flushSchedulerQueue")
    + (IF s # << >> /\ s[1].k = "tick"
       THEN Cardinality({ j \in s[1].i..Len(s[1].subs) : s[1].subs[j] = "flushSchedulerQueue" })
       ELSE 0)

\* The flush loops in progress.
FlushesRunning(s) == Cardinality({ j \in 1..Len(s) : s[j].k = "flush" })

\* C25: at any time at most one flush is scheduled or running; a step hands
\* flushSchedulerQueue to nextTick only when none is waiting (waiting is
\* false, none is scheduled, none is running); and the flush runs as a
\* callback of the tick, never inside the call that enqueued the watcher.
C25_OneFlushAtATime ==
  /\ [](FlushesScheduled(callbacks, stack) + FlushesRunning(stack) <= 1)
  /\ [](InFlush => stack[1].k = "tick" /\ stack[2].k = "flush")
  /\ [][FlushesScheduled(callbacks', stack') > FlushesScheduled(callbacks, stack)
          => /\ ~waiting /\ waiting'
             /\ FlushesScheduled(callbacks, stack) + FlushesRunning(stack) = 0]_vars

\* Two watchers queued outside a flush, the second one enqueued with a flush
\* already waiting: one flush is scheduled.
C25_Witness ==
  /\ ev.kind = "queueWatcher" /\ ev.fired /\ ~flushing
  /\ Len(queue) = 2
  /\ FlushesScheduled(callbacks, stack) = 1

\* ---------------------------------------------------------------- C26
\* The targets of the calls in progress, outermost first: the watcher of an
\* evaluation, none (0) for a hook or data().
RECURSIVE Targets(_)
Targets(s) ==
  IF s = << >> THEN << >>
  ELSE Targets(Pop(s))
         \o (CASE s[Len(s)].k = "get" -> << s[Len(s)].w >>
               [] s[Len(s)].k = "hook" -> << 0 >>
               [] OTHER -> << >>)

C27_SubscribedAtMostOnce ==
  \A d \in DepIds : \A w \in WatcherIds : Occurrences(subs[d], w) <= 1

\* The sync watcher 1 is being evaluated inside its own evaluation, the
\* computed watcher 2 has forwarded its Dep to it, and both are subscribed.
C27_Witness ==
  /\ Cardinality({ j \in 1..Len(stack) : stack[j].k = "get" /\ stack[j].w = 1 }) = 2
  /\ watchers[2].lazy /\ ev.kind = "computedRead" /\ ~ev.fired
  /\ \E d \in DepIds : 1 \in Range(subs[d]) /\ 2 \in Range(subs[d])

\* ---------------------------------------------------------------- C28
\* The calls of w's evaluator, and of w's callback, in progress.
GetsOf(s, w) == Cardinality({ j \in 1..Len(s) : s[j].k = "get" /\ s[j].w = w })
CbsOf(s, w) == Cardinality({ j \in 1..Len(s) : s[j].k = "cb" /\ s[j].w = w })
TornDown(w) == w <= uid /\ ~watchers[w].lazy /\ ~watchers[w].active

\* C28 (as amended): after teardown() of a non-lazy watcher its evaluator is
\* never invoked again, also when the watcher was in the scheduler queue at
\* the time of teardown or a Dep it had read is written later; its callback
\* is not invoked again either, except by a run() whose evaluation was in
\* progress when teardown() was called and which completes as usual.
C28_NoEvaluationAfterTeardown ==
  [][\A w \in WatcherIds :
       TornDown(w) =>
         /\ GetsOf(stack', w) <= GetsOf(stack, w)
         /\ CbsOf(stack', w) > CbsOf(stack, w)
              => Top.k = "get" /\ Top.w = w /\ Top.pc = "run" /\ ~Top.clean]_vars

\* The flush runs watcher 1, which was torn down while it was in the queue
\* and is still subscribed to the Dep that was written: no evaluation starts.
C28_Witness ==
  /\ ev.kind = "run" /\ ev.w = 1 /\ TornDown(1)
  /\ GetsOf(stack, 1) = 0
  /\ flushLog.start = << 1, 2 >>

\* C28 (as stated): ... its evaluator and its callback are never invoked
\* again.
C28_NothingAfterTeardown ==
  [][\A w \in WatcherIds :
       TornDown(w) =>
         /\ GetsOf(stack', w) <= GetsOf(stack, w)
         /\ CbsOf(stack', w) <= CbsOf(stack, w)]_vars

\* ---------------------------------------------------------------- C29
\* C29: run() on an active watcher invokes the callback, with the new and
\* the previous value, if and only if the new value is not identical (===)
\* to the cached value, or the new value is an object or array, or the
\* watcher is deep, and the new value is then the cached one; otherwise the
\* cached value is kept and the callback is not invoked.
C29_CallbackIffChanged ==
  (ev.kind = "getDone" /\ ev.pc = "run") =>
    LET changed == ev.v # ev.old \/ ev.v = "NaN"
        called == stack # << >> /\ Top.k = "cb" /\ Top.w = ev.w
    IN /\ called <=> (changed \/ ev.v \in Objs \/ watchers[ev.w].deep)
       /\ called <=> ev.fired
       /\ called => watchers[ev.w].value = ev.v
       /\ ~called => watchers[ev.w].value = ev.old

\* A deep watcher whose evaluator returned the cached string again: the
\* callback is invoked; the Dep of the nested property o1.a was registered.
C29_Witness ==
  /\ ev.kind = "getDone" /\ ev.pc = "run" /\ ev.fired
  /\ ev.v = "x" /\ ev.old = "x"
  /\ watchers[ev.w].deep

\* ---------------------------------------------------------------- C30
\* The sequence s backwards.
Backwards(s) == [j \in 1..Len(s) |-> s[Len(s) + 1 - j]]

\* The components a hook was called for, in the order of the calls.
HookCalls(log, hook) ==
  LET Is(h) == h.hook = hook
      part == SelectSeq(log, Is)
  IN [j \in 1..Len(part) |-> part[j].vm]

\* flushSchedulerQueue is past its loop.
HookPhase ==
  \E j \in 1..Len(stack) : stack[j].k = "flush" /\ stack[j].pc \in {"activated", "updated"}

\* Both loops of hook calls are over and flushSchedulerQueue is to return.
HooksDone == stack # << >> /\ Top.k = "flush" /\ Top.pc = "updated" /\ Top.i = 0

SchedulerIsReset ==
  /\ queue = << >> /\ index = 0 /\ ~waiting /\ ~flushing
  /\ \A w \in WatcherIds : has[w] = "undef" /\ circular[w] = 0
  /\ lifecycle.activatedChildren = << >>

\* The updated hooks owed to a queue: one for each entry that is the render
\* watcher of a mounted component not destroyed, last entry first.
UpdatedOwed ==
  LET Owed(w) == isRenderWatcher(watchers[w]) /\ lifecycle.isMounted[w]
                   /\ ~lifecycle.isDestroyed[w]
  IN Backwards(SelectSeq(lifecycle.updatedQueue, Owed))

ActivatedBeforeUpdated ==
  \A j, k \in 1..Len(lifecycle.hooks) :
     (lifecycle.hooks[j].hook = "activated" /\ lifecycle.hooks[k].hook = "updated") => j < k

\* The hooks are called after the reset, the activated ones first and for
\* the components queued, the updated ones for the entries of the queue
\* that are render watchers of mounted components not destroyed, backwards.
HooksInOrder ==
  /\ HookPhase => SchedulerIsReset /\ ActivatedBeforeUpdated
  /\ HooksDone =>
       /\ HookCalls(lifecycle.hooks, "activated") = lifecycle.activatedQueue
       /\ HookCalls(lifecycle.hooks, "updated") = UpdatedOwed

\* A component is created, and its render watcher numbered, after its
\* parent's: an updated hook of c is called before one of p.
ChildFirst(c, p) ==
  \A j, k \in 1..Len(lifecycle.hooks) :
     (/\ lifecycle.hooks[j].hook = "updated" /\ lifecycle.hooks[j].vm = c
      /\ lifecycle.hooks[k].hook = "updated" /\ lifecycle.hooks[k].vm = p) => j < k

RefusedCase ==
  /\ ev'.by \in {"set", "del"}
  /\ isVue(ev'.o) \/ vmCount[ev'.o] > 0
  /\ ev'.by = "set" => ~hasOwn(ev'.o, ev'.key)

\* The last step was del of a key that was not an own property.
MissingCase == ev'.by = "del" /\ ~hasOwn(ev'.o, ev'.key)

\* C31: set (for a key not yet present) and del (for any key) on a Vue
\* instance or on an object that is the root data of at least one instance
\* leave the target, and every object, unchanged and notify no Dep: no pass
\* over subscribers is begun and no watcher is queued; del of a key that is
\* not an own property of the target also changes and notifies nothing.
C31_RefusedChangesNothing ==
  [][(RefusedCase \/ MissingCase) =>
       /\ UNCHANGED << heapVars, subs, watchers, schedVars, tickVars, stack >>
       /\ ev'.d = -1 /\ ~ev'.fired]_vars

\* set or del was refused on an object that is root data and whose own Dep
\* has a subscriber.
C31_Witness ==
  /\ ev.kind \in {"delRefused", "setRefused"} /\ ev.o = "o1" /\ vmCount["o1"] > 0
  /\ \E d \in obOf["o1"] : subs[d] # << >>

\* ---------------------------------------------------------------- C32
\* A turn of the loop of parseHTML.
LoopTurn == compiler.fn = "parseHTML" /\ ~compiler.done /\ ~compiler'.done

\* The turn left the template as it was: what remains is the last event,
\* one text, and the loop is left.
TrailingText ==
  /\ compiler'.html = compiler.html
  /\ compiler'.broke
  /\ compiler'.events[Len(compiler'.events)] = Event("chars", "", FALSE, compiler.html)
  /\ \A j \in 1..Len(compiler.events) : compiler'.events[j] = compiler.events[j]
  /\ Len(compiler'.events) = Len(compiler.events) + 1 + (Len(compiler.stack) - Len(compiler'.stack))

MalformedReported ==
  /\ compiler'.warns # << >>
  /\ compiler'.warns[Len(compiler'.warns)] =
       Event("Mal-formatted tag", "", FALSE, compiler.html)
  /\ Len(compiler'.warns) = Len(compiler.warns) + 1

\* C32: parseHTML terminates on every template: in each turn of the loop
\* the remaining template gets strictly shorter, or else it is emitted as
\* one trailing text event and scanning stops, and then the malformed-tag
\* diagnostic is reported if and only if no tag is open.
C32_ShorterOrTrailingText ==
  /\ [][LoopTurn =>
          \/ Len(compiler'.html) < Len(compiler.html) /\ ~compiler'.broke
          \/ /\ TrailingText
             /\ IF compiler'.stack = << >> THEN MalformedReported
                ELSE compiler'.warns = compiler.warns]_vars
  /\ <>(compiler.fn = "parseHTML" /\ compiler.done)

\* parseHTML has returned from a template whose last piece is a '<' that
\* begins no tag, inside an open div: the text before it was one event and
\* the piece another, and the only diagnostic is that of the div.
C32_Witness ==
  /\ compiler.fn = "parseHTML" /\ compiler.done /\ compiler.broke
  /\ compiler.input = << Token("open", "div", FALSE), Token("text", "", FALSE),
                         Token("lt", "", FALSE) >>
  /\ Len(compiler.events) = 4
  /\ compiler.events[3] = Event("chars", "", FALSE, << Token("lt", "", FALSE) >>)
  /\ Len(compiler.warns) = 1 /\ compiler.warns[1].e = "no matching end tag"

\* C32 (as stated): ... or else the remaining input is emitted as one
\* trailing text event, a malformed-tag diagnostic is reported, and scanning
\* stops.
C32_ShorterOrMalformedReported ==
  /\ [][LoopTurn =>
          \/ Len(compiler'.html) < Len(compiler.html) /\ ~compiler'.broke
          \/ TrailingText /\ MalformedReported]_vars
  /\ <>(compiler.fn = "parseHTML" /\ compiler.done)

\* ------------------------------------------------------------------- C33
\* A step of parse that closes an element: the end handler, or the start
\* handler on a unary tag.
Closing ==
  /\ compiler.fn = "parse" /\ compiler.html # << >>
  /\ \/ compiler.html[1].e = "end"
     \/ compiler.html[1].e = "start" /\ compiler.html[1].unary

\* The element the step closes, and the parent it is closed under.
Closed ==
  IF compiler.html[1].e = "end" THEN compiler.stack[Len(compiler.stack)]
  ELSE Len(compiler.els) + 1

ClosedParent ==
  IF compiler.html[1].e = "end"
  THEN IF Len(compiler.stack) > 1 THEN compiler.stack[Len(compiler.stack) - 1] ELSE 0
  ELSE compiler.currentParent

\* The last element among the children of p, 0 without one.
PrevElement(c, p) ==
  LET children == c.els[p].children
      at == { j \in 1..Len(children) : children[j].type = 1 }
  IN IF at = {} THEN 0
     ELSE children[CHOOSE j \in at : \A j2 \in at : j2 <= j].el

IsChildOf(c, x, p) ==
  \E j \in 1..Len(c.els[p].children) :
    c.els[p].children[j].type = 1 /\ c.els[p].children[j].el = x

\* x is a child of an element, or a branch of another element.
Attached(c, x) ==
  \E p \in 1..Len(c.els) :
    \/ IsChildOf(c, x, p)
    \/ p # x /\ \E j \in 1..Len(c.els[p].ifConditions) : c.els[p].ifConditions[j] = x

NoIfErrors(c) ==
  Cardinality({ j \in 1..Len(c.warns) :
                  c.warns[j] = "v-else used on element without corresponding v-if" })

\* The three cases of an element that closes under the parent p.
BranchOrChild(x, p) ==
  LET el == compiler'.els[x]
      prev == PrevElement(compiler, p)
  IN IF el.else \/ el.elseif
     THEN IF prev # 0 /\ compiler.els[prev].if
          THEN /\ compiler'.els[prev].ifConditions =
                    Append(compiler.els[prev].ifConditions, x)
               /\ ~IsChildOf(compiler', x, p)
               /\ NoIfErrors(compiler') = NoIfErrors(compiler)
          ELSE /\ NoIfErrors(compiler') = NoIfErrors(compiler) + 1
               /\ ~Attached(compiler', x)
     ELSE compiler'.els[p].children =
            Append(compiler.els[p].children, ASTChild(1, x, ""))

\* C33: an element that closes under a parent and is not a forbidden tag
\* (style) is appended to the branches of the last element among the
\* parent's children when it has v-else or v-else-if and that element has
\* v-if, and is then no child of the parent; without such an element one
\* more 'without corresponding v-if' error is reported and the element is
\* attached nowhere; without the markers it is appended to the parent's
\* children. A forbidden tag is attached nowhere and reports no such error.
C33_BranchOrChildUnlessForbidden ==
  [][Closing /\ ClosedParent # 0 =>
       IF compiler'.els[Closed].tag = "style"
       THEN /\ ~Attached(compiler', Closed)
            /\ NoIfErrors(compiler') = NoIfErrors(compiler)
       ELSE BranchOrChild(Closed, ClosedParent)]_vars

\* A v-else element has closed as a branch of its v-if sibling, a child of
\* the parent, and is no child itself.
C33_Witness ==
  /\ compiler.fn = "parse" /\ compiler.html = << >>
  /\ \E p, a, x \in 1..Len(compiler.els) :
       /\ IsChildOf(compiler, a, p) /\ compiler.els[a].if
       /\ x # a /\ compiler.els[x].else
       /\ compiler.els[a].ifConditions = << a, x >>
       /\ ~IsChildOf(compiler, x, p)

\* C33 as stated: every element that closes under a parent is a branch, an
\* error or a child.
C33_BranchOrChild ==
  [][Closing /\ ClosedParent # 0 => BranchOrChild(Closed, ClosedParent)]_vars

\* ------------------------------------------------------------------- C34
\* C34: an operation that changes shouldObserve leaves it, when it returns,
\* at the value it had when the operation started.
C34_ToggleRestored ==
  lifecycle.returned.after = lifecycle.returned.before

\* ------------------------------------------------------------------- C35
\* The objects nested in v: reached from it by one reference or more,
\* through objects _traverse goes into.
Nested(v) ==
  IF v \notin Objs THEN {}
  ELSE ReachFrom(Refs(v), { o \in Objs : isExtensible(o) /\ ~isVNode(o) }, Cardinality(Objs))

\* A traverse call in progress comes to its end, and by returning: never by
\* running out of stack.
TraverseReturns ==
  /\ (stack # << >>) ~> (stack = << >>)
  /\ [](ev.kind # "RangeError")

\* No traversal in progress: seenObjects is empty.
SeenLeftEmpty == stack = << >> => seenObjects = {}

\* The call has gone into no observed container twice.
VisitedOnce == \A c \in Objs : obOf[c] # {} => Occurrences(ev.res, c) <= 1

\* traverse(ev.o) has returned: the watcher is registered on the Dep of the
\* Observer of every observed container nested in ev.o.
RegisteredOnNested ==
  ev.kind = "traverse" =>
    \A c \in Nested(ev.o) : obOf[c] \subseteq watchers[ev.w].newDepIds

\* C35: on an object graph every cycle of which passes through an observed
\* container, traverse(val) returns, having registered the watcher on every
\* nested observed container and gone into no observed container twice, and
\* seenObjects is empty after it.
C35_TraverseReturnsClean ==
  /\ TraverseReturns
  /\ [](SeenLeftEmpty /\ VisitedOnce /\ RegisteredOnNested)

\* ------------------------------------------------------------------- C36
\* flushSchedulerQueue has just ended: by its last statement, or by an error
\* that left it for the nextTick callback loop.
FlushJustEnded ==
  \/ ev.kind = "flushEnd"
  \/ /\ ev.kind = "unwind" /\ ~InFlush /\ flushLog.cut = "error"
     /\ stack # << >> /\ Top.k = "tick" /\ exc

\* C36: when a flush has ended, by returning or by an error, the scheduler
\* is idle: not waiting, not flushing, no watcher marked pending, the queue
\* empty.
C36_IdleAfterFlush ==
  FlushJustEnded =>
    /\ ~waiting /\ ~flushing /\ queue = << >>
    /\ \A w \in WatcherIds : has[w] # "true"

\* ------------------------------------------------------------------- C37
\* The step ends a read of a computed property, from the cache or after
\* evaluate(), with or without an error of the evaluator.
ComputedReadEnds ==
  \/ ev'.kind = "computedRead" /\ ~ev'.fired
  \/ ev'.kind = "getDone" /\ ev'.pc = "evaluate"

\* Every Dep a watcher has kept from its latest evaluation has the watcher
\* among its subscribers: a write to it reaches the watcher.
DepsAreSubscribed ==
  \A w \in 1..uid :
    (watchers[w].active /\ ~Evaluating(w)) =>
      \A d \in watchers[w].deps : w \in Range(subs[d])

\* C37: when the read of a computed property ends inside the evaluation of a
\* watcher W, the Deps of the computed watcher's latest evaluation are among
\* those W has collected, and what a watcher has collected it is subscribed
\* to after its evaluation: a write to any of them reaches the computed
\* watcher and W.
C37_ReaderDependsOnComputedDeps ==
  /\ [][(ComputedReadEnds /\ DepTarget' # 0)
          => watchers'[ev'.w].deps \subseteq watchers'[DepTarget'].newDepIds]_vars
  /\ []DepsAreSubscribed

\* ------------------------------------------------------------------- C38
\* C38: two calls whose (template, delimiters) pairs differ share no cache
\* entry: no pair has got the object another pair has got.
C38_DifferentPairsDifferentResults ==
  compiler.fn = "compileToFunctions" =>
    \A i1, i2 \in DOMAIN compiler.returned :
      i1 # i2 => compiler.returned[i1] # compiler.returned[i2]

\* ------------------------------------------------------------------- C39
\* The tags of the elements on parse's stack after the events.
OpenTags(events) ==
  [j \in 1..Len(elementStack(events)) |-> events[elementStack(events)[j]].tag]

\* Every close event names the tag opened last among those still open.
WellNested(events) ==
  \A j \in 1..Len(events) :
    events[j].e = "end" =>
      LET open == OpenTags(SubSeq(events, 1, j - 1))
      IN open # << >> /\ open[Len(open)] = events[j].tag

Opens(events) == { j \in 1..Len(events) : events[j].e = "start" /\ ~events[j].unary }
Closes(events) == { j \in 1..Len(events) : events[j].e = "end" }

\* C39: the open events of tags that are not unary and the close events are
\* well-nested, the scanner's stack holding the tags opened and not closed
\* so far; when scanning is over that stack is empty, there are as many
\* close events as open events, and parse's element stack is empty.
C39_EventsAreWellNested ==
  compiler.fn = "parseHTML" =>
    /\ WellNested(compiler.events)
    /\ OpenTags(compiler.events) = compiler.stack
    /\ compiler.done =>
         /\ compiler.stack = << >>
         /\ elementStack(compiler.events) = << >>
         /\ Cardinality(Opens(compiler.events)) = Cardinality(Closes(compiler.events))

\* Scanning of </p><div><p></div> is over: the stray end tag of p got an
\* open and a close event, and the end tag of div closed the p inside it
\* first.
C39_Witness ==
  /\ compiler.fn = "parseHTML" /\ compiler.done
  /\ compiler.input = << Token("close", "p", FALSE), Token("open", "div", FALSE),
                         Token("open", "p", FALSE), Token("close", "div", FALSE) >>
  /\ compiler.events = << Event("start", "p", FALSE, << >>), Event("end", "p", FALSE, << >>),
                          Event("start", "div", FALSE, << >>),
                          Event("start", "p", FALSE, << >>), Event("end", "p", FALSE, << >>),
                          Event("end", "div", FALSE, << >>) >>

\* ------------------------------------------------------------------- C40
\* The queue entries whose run has not started: all of them before the
\* flush; in a flush those after the entry at index, that entry included
\* until its run begins; after a flush an error has left, those after the
\* entry it left at.
NotStarted ==
  IF InFlush THEN NotYetRun
  ELSE IF flushing THEN SubSeq(queue, index + 2, Len(queue))
  ELSE queue

\* C40: no watcher id occurs twice among the queue entries that have not
\* started running, has[id] is true exactly for the ids of those entries,
\* and when a flush has completed the queue and has are empty.
C40_PendingExactlyMarked ==
  /\ \A w \in WatcherIds : Occurrences(NotStarted, w) <= 1
  /\ \A w \in WatcherIds : (has[w] = "true") <=> (w \in Range(NotStarted))
  /\ ev.kind = "flushEnd" => (queue = << >> /\ \A w \in WatcherIds : has[w] = "undef")

\* In a flush, the watcher being run has been queued again behind itself:
\* its id is twice in the queue, once among the entries not started, and a
\* second watcher waits as well.
C40_Witness ==
  /\ InFlush /\ stack[FlushFrame].pc # "loop"
  /\ \E w \in WatcherIds :
       /\ queue[index + 1] = w
       /\ Occurrences(queue, w) = 2
       /\ has[w] = "true"
  /\ Len(NotStarted) >= 2

====
